---- MODULE Spec2Model ----
(***************************************************************************)
(* Model of the environmental feature-matrix scripts of cedop:             *)
(*   scripts/basin08_sparse_matrix.py   (the basin08 sparse matrix build)  *)
(*   scripts/edop/populate_whc_matrix.py (the whc_matrix table build)      *)
(*                                                                         *)
(* Python values are encoded as tuples so that None and numbers can be     *)
(* compared: None is <<>>, a number is the reduced fraction <<n, d>> with  *)
(* d > 0 (an int n is <<n, 1>>).  Floating-point rounding is not modelled: *)
(* arithmetic is exact rational arithmetic.  A nullable category id is     *)
(* <<>> or <<id>>.  A dict is a function whose DOMAIN is its key set.      *)
(***************************************************************************)
EXTENDS Integers, Sequences, FiniteSets, TLC

(***************************************************************************)
(* Bounds of the model.                                                    *)
(***************************************************************************)
MaxBasins == 3
MaxCities == 2
MaxVal == 3

(***************************************************************************)
(* Configuration: the Feature Definition.                                  *)
(***************************************************************************)
NUMERICAL_FIELDS ==
  << <<"ele_mt_smn", "elev_min">>, <<"ele_mt_smx", "elev_max">>,
     <<"slp_dg_sav", "slope_avg">>, <<"slp_dg_uav", "slope_upstream">>,
     <<"sgr_dk_sav", "stream_gradient">>, <<"kar_pc_sse", "karst">>,
     <<"kar_pc_use", "karst_upstream">>,
     <<"dis_m3_pyr", "discharge_yr">>, <<"dis_m3_pmn", "discharge_min">>,
     <<"dis_m3_pmx", "discharge_max">>, <<"ria_ha_ssu", "river_area">>,
     <<"ria_ha_usu", "river_area_upstream">>, <<"run_mm_syr", "runoff">>,
     <<"gwt_cm_sav", "gw_table_depth">>, <<"cly_pc_sav", "pct_clay">>,
     <<"slt_pc_sav", "pct_silt">>, <<"snd_pc_sav", "pct_sand">>,
     <<"tmp_dc_syr", "temp_yr">>, <<"tmp_dc_smn", "temp_min">>,
     <<"tmp_dc_smx", "temp_max">>, <<"pre_mm_syr", "precip_yr">>,
     <<"ari_ix_sav", "aridity">>, <<"wet_pc_sg1", "wet_pct_grp1">>,
     <<"wet_pc_sg2", "wet_pct_grp2">>, <<"prm_pc_sse", "permafrost_extent">>,
     <<"rev_mc_usu", "reservoir_vol">>, <<"crp_pc_sse", "cropland_extent">>,
     <<"ppd_pk_sav", "pop_density">>, <<"hft_ix_s09", "human_footprint_09">>,
     <<"gdp_ud_sav", "gdp_avg">>, <<"hdi_ix_sav", "human_dev_idx">> >>

TEMP_FIELDS == {"tmp_dc_syr", "tmp_dc_smn", "tmp_dc_smx"}

\* (source column, prefix, id column, lookup table)
CATEGORICAL_FIELDS ==
  << <<"tec_cl_smj", "tec", "eco_id", "lu_tec">>,
     <<"fec_cl_smj", "fec", "eco_id", "lu_fec">>,
     <<"cls_cl_smj", "cls", "gens_id", "lu_cls">>,
     <<"glc_cl_smj", "glc", "glc_id", "lu_glc">>,
     <<"clz_cl_smj", "clz", "genz_id", "lu_clz">>,
     <<"lit_cl_smj", "lit", "glim_id", "lu_lit">>,
     <<"tbi_cl_smj", "tbi", "biome_id", "lu_tbi">>,
     <<"fmh_cl_smj", "fmh", "mht_id", "lu_fmh">>,
     <<"wet_cl_smj", "wet", "glwd_id", "lu_wet">> >>

\* f"{i:02d}"
Pad2(i) == IF i < 10 THEN "0" \o ToString(i) ELSE ToString(i)

PNV_FIELDS == [i \in 1..15 |-> "pnv_pc_s" \o Pad2(i)]

\* populate_whc_matrix.py keeps its own copies of the field lists
WHC_NUMERICAL_FIELDS == NUMERICAL_FIELDS

WHC_TEMP_NAMES == {"temp_yr", "temp_min", "temp_max"}

WHC_CATEGORICAL_FIELDS ==
  [k \in 1..Len(CATEGORICAL_FIELDS) |->
     <<CATEGORICAL_FIELDS[k][1], CATEGORICAL_FIELDS[k][2], CATEGORICAL_FIELDS[k][3]>>]

(***************************************************************************)
(* Python values.                                                          *)
(***************************************************************************)
None == <<>>

Abs(n) == IF n < 0 THEN -n ELSE n

RECURSIVE Gcd(_, _)
Gcd(a, b) == IF b = 0 THEN a ELSE Gcd(b, a % b)

\* the number n/d (d # 0) in reduced form with a positive denominator
Rat(n, d) ==
  LET g == Gcd(Abs(n), Abs(d))
      s == IF d < 0 THEN -1 ELSE 1
  IN  <<(s * n) \div g, (s * d) \div g>>

Num(n) == <<n, 1>>
Zero == Num(0)
One == Num(1)
Half == Rat(1, 2)

RatSub(a, b) == Rat(a[1] * b[2] - b[1] * a[2], a[2] * b[2])
RatDiv(a, b) == Rat(a[1] * b[2], a[2] * b[1])
RatLess(a, b) == a[1] * b[2] < b[1] * a[2]
RatLeq(a, b) == a[1] * b[2] <= b[1] * a[2]

\* float(x) of an int, a Decimal or a float
float(x) == Rat(x[1], x[2])

\* dict.get(key): None when the key is absent
DictGet(d, key) == IF key \in DOMAIN d THEN d[key] ELSE None

\* list.index(x): the first position holding x (0 when there is none)
IndexOf(s, x) ==
  IF \E i \in 1..Len(s) : s[i] = x
  THEN CHOOSE i \in 1..Len(s) : s[i] = x /\ \A j \in 1..(i - 1) : s[j] # x
  ELSE 0

RECURSIVE SumSeq(_)
SumSeq(s) == IF s = <<>> THEN 0 ELSE Head(s) + SumSeq(Tail(s))

RECURSIVE Flatten(_)
Flatten(ss) == IF ss = <<>> THEN <<>> ELSE Head(ss) \o Flatten(Tail(ss))

(***************************************************************************)
(* SQL helpers.                                                            *)
(***************************************************************************)
\* ORDER BY over a set of integers
RECURSIVE SortInts(_)
SortInts(S) ==
  IF S = {} THEN <<>>
  ELSE LET m == CHOOSE x \in S : \A y \in S : x <= y
       IN  <<m>> \o SortInts(S \ {m})

\* MIN(expr) / MAX(expr): NULLs are ignored, NULL when nothing is left
SqlMin(vals) ==
  LET S == vals \ {None}
  IN  IF S = {} THEN None ELSE CHOOSE x \in S : \A y \in S : RatLeq(x, y)

SqlMax(vals) ==
  LET S == vals \ {None}
  IN  IF S = {} THEN None ELSE CHOOSE x \in S : \A y \in S : RatLeq(y, x)

\* col / 10.0 in SQL: NULL stays NULL
SqlDiv10(v) == IF v = None THEN None ELSE RatDiv(v, Num(10))

(***************************************************************************)
(* The backing store: the tables the scripts read, as the inputs the model *)
(* enumerates.  A table row is a function from column name to value.       *)
(***************************************************************************)
NumCols == {NUMERICAL_FIELDS[i][1] : i \in 1..Len(NUMERICAL_FIELDS)}
PnvCols == {PNV_FIELDS[i] : i \in 1..Len(PNV_FIELDS)}
CatCols == {CATEGORICAL_FIELDS[k][1] : k \in 1..Len(CATEGORICAL_FIELDS)}
Prefixes == {CATEGORICAL_FIELDS[k][2] : k \in 1..Len(CATEGORICAL_FIELDS)}
DeclaredCols == NumCols \cup PnvCols \cup CatCols

NumIndex(col) == CHOOSE i \in 1..Len(NUMERICAL_FIELDS) : NUMERICAL_FIELDS[i][1] = col
PnvIndex(col) == CHOOSE i \in 1..Len(PNV_FIELDS) : PNV_FIELDS[i] = col
CatIndex(col) == CHOOSE k \in 1..Len(CATEGORICAL_FIELDS) : CATEGORICAL_FIELDS[k][1] = col
PrefixIndex(p) == CHOOSE k \in 1..Len(CATEGORICAL_FIELDS) : CATEGORICAL_FIELDS[k][2] = p

\* Row templates: 1 holds low values, 2 high values (outside the stored
\* ranges), 3 middle values with NULLs and unmatched category ids.
Templates == {1, 2, 3}

TemplateNum(t, i) ==
  CASE t = 1 -> Num(10 * (i % 2))
    [] t = 2 -> Num(20 + 10 * (i % 3))
    [] OTHER -> IF i % 4 = 0 THEN None ELSE Num(5 + 5 * (i % 2))

TemplatePnv(t, j) ==
  CASE t = 1 -> IF j = 1 THEN Num(100) ELSE Num(0)
    [] t = 2 -> IF j <= 2 THEN Num(50) ELSE None
    [] OTHER -> IF j = 15 THEN None ELSE Num(j)

TemplateCat(t, k) ==
  CASE t = 1 -> <<1 + (k % 3)>>
    [] t = 2 -> IF k % 2 = 1 THEN <<2>> ELSE <<7>>
    [] OTHER -> IF k % 2 = 1 THEN None ELSE <<3>>

\* basin08.id is h; hybas_id runs against it, so that ORDER BY hybas_id is
\* not the order of id
HybasOf(h) == 100 - h

BasinRow(h, t) ==
  [c \in {"id", "hybas_id"} \cup NumCols \cup PnvCols \cup CatCols |->
     IF c = "id" THEN h
     ELSE IF c = "hybas_id" THEN HybasOf(h)
     ELSE IF c \in NumCols THEN TemplateNum(t, NumIndex(c))
     ELSE IF c \in PnvCols THEN TemplatePnv(t, PnvIndex(c))
     ELSE TemplateCat(t, CatIndex(c))]

\* every content of basin08 with at most MaxBasins rows
BasinTables ==
  UNION {
    { {BasinRow(h, f[h]) : h \in H} : f \in [H -> Templates] }
    : H \in SUBSET (1..MaxBasins) }

\* lookup tables lu_<prefix>: the id column in storage order
LuConfigs == {1, 2}

LuTable(c, k) ==
  IF c = 1 THEN <<3, 1, 2>>
  ELSE CASE k % 3 = 0 -> <<>>
         [] k % 3 = 1 -> <<2, 1, 2>>
         [] OTHER     -> <<4, 2, 3, 1>>

LuTables(c) == [p \in Prefixes |-> LuTable(c, PrefixIndex(p))]

\* edop_norm_ranges: empty, or the singleton row id = 1.  The stored ranges
\* are 0..20 (0..2 degrees for the temperature fields); elev_max is a
\* zero-variance field and karst has a NULL minimum.  The "partial" record
\* comes from a table created for a shorter field list, the "inverted" one
\* holds a minimum above its maximum.
RangeKeys(fields) ==
  {fields[i][2] \o "_min" : i \in 1..Len(fields)} \cup
  {fields[i][2] \o "_max" : i \in 1..Len(fields)}

KeyField(key) ==
  CHOOSE i \in 1..Len(NUMERICAL_FIELDS) :
    key \in {NUMERICAL_FIELDS[i][2] \o "_min", NUMERICAL_FIELDS[i][2] \o "_max"}

KeyIsMin(key) == key = NUMERICAL_FIELDS[KeyField(key)][2] \o "_min"

StoredRange(key) ==
  LET i == KeyField(key)
      name == NUMERICAL_FIELDS[i][2]
  IN  IF name = "elev_max" THEN Num(10)
      ELSE IF name = "karst" /\ KeyIsMin(key) THEN None
      ELSE IF KeyIsMin(key) THEN Num(0)
      ELSE IF NUMERICAL_FIELDS[i][1] \in TEMP_FIELDS THEN Num(2)
      ELSE Num(20)

RangeRecord(fields) ==
  [c \in {"id"} \cup RangeKeys(fields) |-> IF c = "id" THEN Num(1) ELSE StoredRange(c)]

\* a record whose minimum of the first field lies above its maximum: the
\* table is filled by a script outside this repository and holds what that
\* script, or anyone else, has written
InvertedRange ==
  [RangeRecord(NUMERICAL_FIELDS) EXCEPT
     ![NUMERICAL_FIELDS[1][2] \o "_min"] = Num(20),
     ![NUMERICAL_FIELDS[1][2] \o "_max"] = Num(0)]

NormRangeTables ==
  { {}, {RangeRecord(NUMERICAL_FIELDS)}, {RangeRecord(SubSeq(NUMERICAL_FIELDS, 1, 27))},
    {InvertedRange} }

\* a table whose row has no maximum for the yearly precipitation
NullPrecipRanges ==
  {[RangeRecord(NUMERICAL_FIELDS) EXCEPT !["precip_yr_max"] = None]}

\* the tables populate_whc_matrix.py is run on
WhcRangeTables ==
  { {}, {RangeRecord(NUMERICAL_FIELDS)}, {RangeRecord(SubSeq(NUMERICAL_FIELDS, 1, 27))},
    NullPrecipRanges }

(***************************************************************************)
(* basin08_sparse_matrix.py: the functions.                                *)
(***************************************************************************)
\* a call either returns a value or raises
Return(v) == [exc |-> "", val |-> v]
Raise(e) == [exc |-> e, val |-> <<>>]

\* faulty variant: MIN and MAX taken over the raw tenths of a degree
RangeExprRaw(col, v) == v

\* the aggregated expression of one column in the computed-ranges query
RangeExpr(col, v) == IF col \in TEMP_FIELDS THEN SqlDiv10(v) ELSE v

\* SELECT MIN(..) AS <name>_min, MAX(..) AS <name>_max, ... FROM basin08
ComputeRanges(basin08_rows) ==
  [key \in RangeKeys(NUMERICAL_FIELDS) |->
     LET col == NUMERICAL_FIELDS[KeyField(key)][1]
         vals == {RangeExpr(col, r[col]) : r \in basin08_rows}
     IN  IF KeyIsMin(key) THEN SqlMin(vals) ELSE SqlMax(vals)]

\* faulty variant: the stored record is ignored
get_global_ranges_recompute(cur, norm_ranges_rows, basin08_rows) ==
  IF cur.fault = "ranges"
  THEN Raise("OperationalError")
  ELSE IF NumCols \subseteq cur.columns
  THEN Return(ComputeRanges(basin08_rows))
  ELSE Raise("UndefinedColumn")

\* faulty variant: a failed query is answered with the range 0..1 for every
\* field
get_global_ranges_default(cur, norm_ranges_rows, basin08_rows) ==
  IF cur.fault = "ranges"
  THEN Return([key \in RangeKeys(NUMERICAL_FIELDS) |->
                 IF KeyIsMin(key) THEN Zero ELSE One])
  ELSE IF Cardinality(norm_ranges_rows) > 0
  THEN Return(CHOOSE r \in norm_ranges_rows : r["id"] = Num(1))
  ELSE IF NumCols \subseteq cur.columns
  THEN Return(ComputeRanges(basin08_rows))
  ELSE Raise("UndefinedColumn")

\* cur is the cursor: whether the store answers it, and the columns basin08
\* has for the aggregate query to name
get_global_ranges(cur, norm_ranges_rows, basin08_rows) ==
  IF cur.fault = "ranges"
  THEN Raise("OperationalError")
  ELSE IF Cardinality(norm_ranges_rows) > 0
  THEN LET found == {r \in norm_ranges_rows : r["id"] = Num(1)}
       IN  IF found = {}
           THEN Raise("TypeError")   \* zip(cols, None)
           ELSE Return(CHOOSE r \in found : TRUE)
  ELSE IF NumCols \subseteq cur.columns
  THEN Return(ComputeRanges(basin08_rows))
  ELSE Raise("UndefinedColumn")

\* a statement sent to the store, and the function that sent it
Statement(verb, table, by) == [verb |-> verb, table |-> table, by |-> by]

\* faulty variant: the computed ranges are stored for the next run
RangeStatementsCaching(cur, norm_ranges_rows) ==
  << Statement("SELECT", "edop_norm_ranges", "get_global_ranges") >>
  \o (IF cur.fault = "ranges" THEN <<>>
      ELSE IF Cardinality(norm_ranges_rows) > 0
      THEN << Statement("SELECT", "edop_norm_ranges", "get_global_ranges") >>
      ELSE << Statement("SELECT", "basin08", "get_global_ranges"),
              Statement("INSERT", "edop_norm_ranges", "get_global_ranges") >>)

\* faulty variant: the ranges are looked up a second time
RangeStatementsRepeated(cur, norm_ranges_rows) ==
  LET once == << Statement("SELECT", "edop_norm_ranges", "get_global_ranges") >>
                \o (IF cur.fault = "ranges" THEN <<>>
                    ELSE IF Cardinality(norm_ranges_rows) > 0
                    THEN << Statement("SELECT", "edop_norm_ranges", "get_global_ranges") >>
                    ELSE << Statement("SELECT", "basin08", "get_global_ranges") >>)
  IN  once \o once

\* the statements of get_global_ranges: the row count, then the stored record
\* or the aggregates over basin08
RangeStatements(cur, norm_ranges_rows) ==
  << Statement("SELECT", "edop_norm_ranges", "get_global_ranges") >>
  \o (IF cur.fault = "ranges" THEN <<>>
      ELSE IF Cardinality(norm_ranges_rows) > 0
      THEN << Statement("SELECT", "edop_norm_ranges", "get_global_ranges") >>
      ELSE << Statement("SELECT", "basin08", "get_global_ranges") >>)

\* the statements of the loop of lines 195-198: one per lookup table
CategoryStatements ==
  [k \in 1..Len(CATEGORICAL_FIELDS) |->
     Statement("SELECT", CATEGORICAL_FIELDS[k][4], "get_categorical_ids")]

\* faulty variant: the query without DISTINCT
RECURSIVE SortSeqInts(_)
SortSeqInts(q) ==
  IF q = <<>> THEN <<>>
  ELSE LET m == CHOOSE i \in 1..Len(q) : \A j \in 1..Len(q) : q[i] <= q[j]
       IN  <<q[m]>> \o SortSeqInts(SubSeq(q, 1, m - 1) \o SubSeq(q, m + 1, Len(q)))

get_categorical_ids_not_distinct(lu_tables) ==
  [p \in Prefixes |-> SortSeqInts(lu_tables[p])]

\* faulty variant: the ids in the order the lookup table stores them
get_categorical_ids_as_stored(lu_tables) ==
  [p \in Prefixes |-> lu_tables[p]]

\* SELECT DISTINCT id FROM lu ORDER BY id, for each categorical field
get_categorical_ids(lu_tables) ==
  [p \in Prefixes |-> SortInts({lu_tables[p][i] : i \in 1..Len(lu_tables[p])})]

\* faulty variant: one vegetation name short, range(1, 15)
build_feature_names_short(ids) ==
  [i \in 1..Len(NUMERICAL_FIELDS) |-> "n_" \o NUMERICAL_FIELDS[i][2]]
  \o [i \in 1..14 |-> "pnv_" \o Pad2(i)]
  \o Flatten([k \in 1..Len(CATEGORICAL_FIELDS) |->
       LET prefix == CATEGORICAL_FIELDS[k][2]
       IN  [j \in 1..Len(ids[prefix]) |->
              "cat_" \o prefix \o "_" \o ToString(ids[prefix][j])]])

build_feature_names(ids) ==
  [i \in 1..Len(NUMERICAL_FIELDS) |-> "n_" \o NUMERICAL_FIELDS[i][2]]
  \o [i \in 1..15 |-> "pnv_" \o Pad2(i)]
  \o Flatten([k \in 1..Len(CATEGORICAL_FIELDS) |->
       LET prefix == CATEGORICAL_FIELDS[k][2]
       IN  [j \in 1..Len(ids[prefix]) |->
              "cat_" \o prefix \o "_" \o ToString(ids[prefix][j])]])

\* faulty variant: the result clamped to [0, 1]
normalize_value_clamped(value, min_val, max_val) ==
  IF value = None \/ min_val = None \/ max_val = None
  THEN Zero
  ELSE IF float(max_val) = float(min_val)
       THEN Half
       ELSE LET x == RatDiv(RatSub(float(value), float(min_val)),
                            RatSub(float(max_val), float(min_val)))
            IN  IF RatLess(x, Zero) THEN Zero ELSE IF RatLess(One, x) THEN One ELSE x

\* faulty variant: a zero-variance field coded as 0.0
normalize_value_flat_zero(value, min_val, max_val) ==
  IF value = None \/ min_val = None \/ max_val = None
  THEN Zero
  ELSE IF float(max_val) = float(min_val)
       THEN Zero
       ELSE RatDiv(RatSub(float(value), float(min_val)),
                   RatSub(float(max_val), float(min_val)))

normalize_value(value, min_val, max_val) ==
  IF value = None \/ min_val = None \/ max_val = None
  THEN Zero
  ELSE IF float(max_val) = float(min_val)
       THEN Half
       ELSE RatDiv(RatSub(float(value), float(min_val)),
                   RatSub(float(max_val), float(min_val)))

\* columns are numbered from 0, as in the script
CatColOffset == Len(NUMERICAL_FIELDS) + Len(PNV_FIELDS)

\* faulty variant: col_idx restarts at the offset for every field
BuildCatIdToColRestart(ids) ==
  [p \in Prefixes |->
     [id \in {ids[p][j] : j \in 1..Len(ids[p])} |->
        CatColOffset + (IndexOf(ids[p], id) - 1)]]

\* the column index the loop of lines 216-221 leaves in cat_id_to_col: col_idx
\* counts every list element, and a later duplicate overwrites an earlier one
BuildCatIdToCol(ids) ==
  [p \in Prefixes |->
     LET k == PrefixIndex(p)
         before == SumSeq([q \in 1..(k - 1) |-> Len(ids[CATEGORICAL_FIELDS[q][2]])])
     IN  [id \in {ids[p][j] : j \in 1..Len(ids[p])} |->
            LET last == CHOOSE j \in 1..Len(ids[p]) :
                          /\ ids[p][j] = id
                          /\ \A j2 \in (j + 1)..Len(ids[p]) : ids[p][j2] # id
            IN  CatColOffset + before + (last - 1)]]

\* SELECT hybas_id, <numerical>, <pnv>, <categorical> FROM basin08: one row
SelectRow(r) ==
  <<r["hybas_id"]>>
  \o [i \in 1..Len(NUMERICAL_FIELDS) |-> r[NUMERICAL_FIELDS[i][1]]]
  \o [i \in 1..Len(PNV_FIELDS) |-> r[PNV_FIELDS[i]]]
  \o [k \in 1..Len(CATEGORICAL_FIELDS) |-> r[CATEGORICAL_FIELDS[k][1]]]

\* faulty variant: ORDER BY id
SelectBasinsById(basin08_rows) ==
  LET order == SortInts({r["id"] : r \in basin08_rows})
  IN  [n \in 1..Len(order) |->
         SelectRow(CHOOSE r \in basin08_rows : r["id"] = order[n])]

\* ... ORDER BY hybas_id
SelectBasins(basin08_rows) ==
  LET order == SortInts({r["hybas_id"] : r \in basin08_rows})
  IN  [n \in 1..Len(order) |->
         SelectRow(CHOOSE r \in basin08_rows : r["hybas_id"] = order[n])]

\* lines 272-275: the temperature conversion of a row's raw value
RowConv(db_col, raw_val) ==
  IF db_col \in TEMP_FIELDS /\ raw_val # None THEN RatDiv(raw_val, Num(10)) ELSE raw_val

\* faulty variant: the vegetation share left on its 0..100 scale
DenseCellsPercent(row, rng, old) ==
  [c \in 1..CatColOffset |->
     IF c <= Len(NUMERICAL_FIELDS)
     THEN LET name == NUMERICAL_FIELDS[c][2]
          IN  normalize_value(RowConv(NUMERICAL_FIELDS[c][1], row[1 + c]),
                              DictGet(rng, name \o "_min"),
                              DictGet(rng, name \o "_max"))
     ELSE LET pnv_val == row[1 + c]
          IN  IF pnv_val # None THEN pnv_val ELSE old[c]]

\* lines 270-287: the dense cells of one row; old is the row of dense_data
\* before the assignments.  row[col] of the script is row[col + 1] here.
DenseCells(row, rng, old) ==
  [c \in 1..CatColOffset |->
     IF c <= Len(NUMERICAL_FIELDS)
     THEN LET name == NUMERICAL_FIELDS[c][2]
          IN  normalize_value(RowConv(NUMERICAL_FIELDS[c][1], row[1 + c]),
                              DictGet(rng, name \o "_min"),
                              DictGet(rng, name \o "_max"))
     ELSE LET pnv_val == row[1 + c]
          IN  IF pnv_val # None THEN RatDiv(pnv_val, Num(100)) ELSE old[c]]

\* lines 289-296: the one-hot column of categorical field k of a row, as <<col>>
\* when an entry is appended and <<>> when none is
CatEntry(row, k, id_to_col) ==
  LET prefix == CATEGORICAL_FIELDS[k][2]
      cat_val == row[1 + CatColOffset + k]
  IN  IF cat_val # None /\ cat_val[1] \in DOMAIN id_to_col[prefix]
      THEN <<id_to_col[prefix][cat_val[1]]>>
      ELSE <<>>

CatEntries(row, id_to_col) ==
  Flatten([k \in 1..Len(CATEGORICAL_FIELDS) |-> CatEntry(row, k, id_to_col)])

\* faulty variant: a row that does not fit the matrix is skipped
ProcessRowSkipping(row, st, rng, id_to_col, nb) ==
  IF st.row_idx >= nb
  THEN st
  ELSE LET cols == CatEntries(row, id_to_col)
       IN  [st EXCEPT
              !.basin_ids = Append(@, row[1]),
              !.dense_data[st.row_idx + 1] = DenseCells(row, rng, @),
              !.sparse_rows = @ \o [e \in 1..Len(cols) |-> st.row_idx],
              !.sparse_cols = @ \o cols,
              !.sparse_vals = @ \o [e \in 1..Len(cols) |-> 1],
              !.row_idx = @ + 1]

\* lines 264-298 for one fetched row.  st holds the loop's variables.
ProcessRow(row, st, rng, id_to_col, nb) ==
  IF st.row_idx >= nb
  THEN [st EXCEPT !.basin_ids = Append(@, row[1]), !.exc = "IndexError"]
  ELSE LET cols == CatEntries(row, id_to_col)
       IN  [st EXCEPT
              !.basin_ids = Append(@, row[1]),
              !.dense_data[st.row_idx + 1] = DenseCells(row, rng, @),
              !.sparse_rows = @ \o [e \in 1..Len(cols) |-> st.row_idx],
              !.sparse_cols = @ \o cols,
              !.sparse_vals = @ \o [e \in 1..Len(cols) |-> 1],
              !.row_idx = @ + 1]

RECURSIVE ProcessRows(_, _, _, _, _)
ProcessRows(rows, st, rng, id_to_col, nb) ==
  IF rows = <<>> \/ st.exc # "" THEN st
  ELSE ProcessRows(Tail(rows), ProcessRow(Head(rows), st, rng, id_to_col, nb),
                   rng, id_to_col, nb)

\* lines 307-320: the COO entries summed per cell, the first columns then
\* overwritten by the dense block
RECURSIVE CooCell(_, _, _, _, _)
CooCell(rs, cs, vs, r, c) ==
  IF rs = <<>> THEN 0
  ELSE (IF Head(rs) = r /\ Head(cs) = c THEN Head(vs) ELSE 0)
       + CooCell(Tail(rs), Tail(cs), Tail(vs), r, c)

AssembleMatrix(dense, rs, cs, vs, nb, nf) ==
  [r \in 1..nb |->
     [c \in 1..nf |->
        IF c <= CatColOffset THEN dense[r][c]
        ELSE Num(CooCell(rs, cs, vs, r - 1, c - 1))]]

(***************************************************************************)
(* populate_whc_matrix.py: the functions.                                  *)
(***************************************************************************)
\* SELECT id, ..., basin_id FROM wh_cities WHERE basin_id IS NOT NULL ORDER BY id
get_cities_with_basins(city_rows) ==
  LET kept == {c \in city_rows : c.basin_id # None}
      order == SortInts({c.id : c \in kept})
  IN  [n \in 1..Len(order) |-> CHOOSE c \in kept : c.id = order[n]]

\* SELECT ... FROM basin08 b WHERE b.id = %s, as the dict of lines 134-152
get_basin_data(basin08_rows, basin_id) ==
  LET found == {r \in basin08_rows : r["id"] = basin_id}
  IN  IF found = {} THEN None
      ELSE LET r == CHOOSE x \in found : TRUE
           IN  [key \in {WHC_NUMERICAL_FIELDS[i][2] : i \in 1..Len(WHC_NUMERICAL_FIELDS)}
                        \cup {"cat_" \o q : q \in Prefixes}
                        \cup {"pnv_" \o Pad2(i) : i \in 1..15} |->
                  IF \E i \in 1..Len(WHC_NUMERICAL_FIELDS) : WHC_NUMERICAL_FIELDS[i][2] = key
                  THEN r[WHC_NUMERICAL_FIELDS[
                         CHOOSE i \in 1..Len(WHC_NUMERICAL_FIELDS) :
                           WHC_NUMERICAL_FIELDS[i][2] = key][1]]
                  ELSE IF \E k \in 1..Len(WHC_CATEGORICAL_FIELDS) :
                            "cat_" \o WHC_CATEGORICAL_FIELDS[k][2] = key
                  THEN r[WHC_CATEGORICAL_FIELDS[
                         CHOOSE k \in 1..Len(WHC_CATEGORICAL_FIELDS) :
                           "cat_" \o WHC_CATEGORICAL_FIELDS[k][2] = key][1]]
                  ELSE r[PNV_FIELDS[CHOOSE i \in 1..15 : "pnv_" \o Pad2(i) = key]]]

\* SELECT * FROM edop_norm_ranges WHERE id = 1, without the id column
get_norm_ranges(norm_ranges_rows) ==
  LET found == {r \in norm_ranges_rows : r["id"] = Num(1)}
  IN  IF found = {}
      THEN Raise("RuntimeError")
      ELSE LET row == CHOOSE r \in found : TRUE
           IN  Return([c \in (DOMAIN row) \ {"id"} |-> row[c]])

whc_normalize_value(value, min_val, max_val) ==
  IF value = None \/ min_val = None \/ max_val = None
  THEN None
  ELSE IF float(max_val) = float(min_val)
       THEN Half
       ELSE RatDiv(RatSub(float(value), float(min_val)),
                   RatSub(float(max_val), float(min_val)))

\* lines 202-204: the temperature conversion of a city's raw value
WhcRowConv(name, raw_value) ==
  IF name \in WHC_TEMP_NAMES /\ raw_value # None
  THEN RatDiv(raw_value, Num(10)) ELSE raw_value

\* the column a categorical value is written to
WhcCatColumn(prefix, cat_value) == "cat_" \o prefix \o "_" \o ToString(cat_value[1])

build_matrix_row(city, basin_data, rng, columns) ==
  IF basin_data = None
  THEN [c \in {"city_id"} |-> Num(city.id)]
  ELSE LET numKeys == {"n_" \o WHC_NUMERICAL_FIELDS[i][2] :
                         i \in 1..Len(WHC_NUMERICAL_FIELDS)} \cap columns
           pnvKeys == {"pnv_" \o Pad2(i) : i \in 1..15} \cap columns
           catKeys == {WhcCatColumn(q, DictGet(basin_data, "cat_" \o q)) :
                         q \in {x \in Prefixes : DictGet(basin_data, "cat_" \o x) # None}}
                      \cap columns
       IN  [c \in {"city_id"} \cup numKeys \cup pnvKeys \cup catKeys |->
              IF c = "city_id" THEN Num(city.id)
              ELSE IF c \in numKeys
              THEN LET name == WHC_NUMERICAL_FIELDS[
                                 CHOOSE i \in 1..Len(WHC_NUMERICAL_FIELDS) :
                                   "n_" \o WHC_NUMERICAL_FIELDS[i][2] = c][2]
                   IN  whc_normalize_value(WhcRowConv(name, DictGet(basin_data, name)),
                                           DictGet(rng, name \o "_min"),
                                           DictGet(rng, name \o "_max"))
              ELSE IF c \in pnvKeys
              THEN LET pnv_val == DictGet(basin_data, c)
                   IN  IF pnv_val # None THEN RatDiv(pnv_val, Num(100)) ELSE Zero
              ELSE One]

\* wh_cities: city k lies in the basin with basin08.id = k; one more city has
\* no basin
WhCities ==
  {[id |-> k, basin_id |-> <<k>>] : k \in 1..MaxCities}
  \cup {[id |-> MaxCities + 1, basin_id |-> None]}

\* the columns of whc_matrix: the full table, one created for fewer fields,
\* or the full table without n_elev_min
ColumnConfigs == {1, 2, 3}

MatrixColumns(c) ==
  ({"city_id"}
  \cup {"n_" \o NUMERICAL_FIELDS[i][2] :
          i \in 1..(IF c = 2 THEN 27 ELSE Len(NUMERICAL_FIELDS))}
  \cup {"pnv_" \o Pad2(i) : i \in 1..15}
  \cup {"cat_" \o q \o "_" \o ToString(id) :
          q \in Prefixes, id \in (IF c = 2 THEN 1..2 ELSE 1..3)})
  \ (IF c = 3 THEN {"n_elev_min"} ELSE {})

(***************************************************************************)
(* State.                                                                  *)
(***************************************************************************)
VARIABLES
  script,            \* which script this run executes
  pc,                \* the position of its main()
  exc,               \* the exception that ended it, "" when none
  basin08, edop_norm_ranges, lu, wh_cities, matrix_columns, whc_matrix,
                     \* the backing store
  basin08_columns,   \* the columns the basin08 table has
  store_fault,       \* the step at which the store fails in this run, "" when none
  writes,            \* the writes other sessions have committed during the run
  sql_log,           \* the statements the script has sent to the store
  batch_size,        \* basin08_sparse_matrix.main: its locals
  ranges, cat_ids, feature_names, n_features, cat_id_to_col, n_basins,
  result,            \* the rows of the answered SELECT, held by the client, that
                     \* fetchmany has not handed over yet
  basin_ids, dense_data, sparse_rows, sparse_cols, sparse_vals, row_idx,
  final_matrix,
  output,            \* the files under the builder's OUTPUT_DIR, <repo>/output
  cities, valid_columns, txn, city_i, inserted, skipped,
                     \* populate_whc_matrix.main: its locals and its transaction
  call,              \* a single call of a pure function: arguments and result
  fetch_targets,     \* ich_corpus_update.fetch_elements: the ich_ids of its targets
  progress_file,     \* fetch_progress.json, None when it does not exist
  docs,              \* the nomination files under PDF_DIR
  new_summaries,     \* new_summaries.json
  progress, already_fetched, fetch_i,
                     \* the locals of fetch_elements
  runs,              \* the runs of the fetch step started so far
  failures,          \* the requests that have failed so far
  requested,         \* the element pages requested so far, over all runs
  raw_files,         \* ich_clean_batch.py: the ich_ids of the raw files under
                     \* RAW_DIR, in the order the glob lists them
  out_files,         \* the ich_ids with a cleaned file under OUTPUT_DIR
  resume, limit,     \* args.resume and args.limit of the current run, limit 0
                     \* when --limit is not given
  files, completed_ids, file_i,
                     \* the locals of ich_clean_batch.main; its progress and
                     \* clean_progress.json are progress and progress_file
  sent,              \* the documents sent to the LLM so far, over all runs
  target_ids,        \* ich_llm_extract_*.main: the ich_ids of its targets
  doc_dir,           \* the ich_ids with a document under DOC_DIR
  output_file,       \* OUTPUT_FILE, None when it does not exist
  results, start_idx, doc_i,
                     \* the locals of ich_llm_extract_*.main
  http_log,          \* ich_corpus_update.py: the sleeps and requests it has made
  args,              \* the arguments of the current run of its main
  served,            \* the content types its server gives nomination files
  discovery_file,    \* discovery.json, None when it does not exist
  discovery,         \* the discovery main holds
  gap_report,        \* gap_check_report.json
  gap_fetch_results, \* gap_fetch_results.json
  gap_i, gap_results,
                     \* the locals of check_gap_elements and fetch_gap_docs
  scripts_output,    \* the builder's files as <repo>/scripts/output holds them,
                     \* the OUTPUT_DIR of basin08_pca.py
  svd_components,    \* basin08_pca.main: the components of the fitted TruncatedSVD
  pca_coords,        \* <repo>/scripts/output/basin08_pca_coords.npy, which
                     \* basin08_pca.py saves; None when it does not exist
  coords_file,       \* <repo>/output/basin08_pca_coords.npy, which
                     \* basin08_clustering_k20.py loads: whether it exists, and
                     \* the rows of the array it holds
  centroids, labels, \* basin08_clustering_k20.main: the fitted centroids, the labels
  basin08_pca_clusters
                     \* the table basin08_pca_clusters

storeVars == <<basin08, edop_norm_ranges, lu, wh_cities, matrix_columns, whc_matrix,
               basin08_columns, store_fault, writes>>
layoutVars == <<cat_ids, feature_names, n_features, cat_id_to_col>>
loopVars == <<basin_ids, dense_data, sparse_rows, sparse_cols, sparse_vals, row_idx>>
sparseVars == <<batch_size, layoutVars, n_basins, result, loopVars, final_matrix, output>>
whcVars == <<cities, valid_columns, txn, city_i, inserted, skipped>>
fetchVars == <<fetch_targets, progress_file, docs, new_summaries, progress,
               already_fetched, fetch_i, runs, failures, requested>>
cleanVars == <<raw_files, out_files, resume, limit, files, completed_ids, file_i, sent>>
extractVars == <<target_ids, doc_dir, output_file, results, start_idx, doc_i>>
crawlVars == <<http_log, served, args, discovery_file, discovery, gap_report, gap_fetch_results,
               gap_i, gap_results>>
pipeVars == <<scripts_output, svd_components, pca_coords, coords_file, centroids, labels,
              basin08_pca_clusters>>
batchVars == <<cleanVars, extractVars, crawlVars, pipeVars>>
vars == <<script, pc, exc, storeVars, sql_log, ranges, sparseVars, whcVars, call, fetchVars,
          batchVars>>

BATCH_SIZE == 10000
MaxBatch == 2

\* fetchmany sizes: the script's own, and small ones that cut the result set
BatchSizes == {1, MaxBatch, BATCH_SIZE}

NoOutput == [saved |-> FALSE, matrix |-> <<>>, feature_names |-> <<>>, basin_ids |-> <<>>]
NoCall == [fn |-> "", value |-> None, min_val |-> None, max_val |-> None,
           done |-> FALSE, result |-> None, whc_result |-> None, again |-> None]

\* the rows whc_matrix holds from an earlier run
OldMatrix == {[c \in {"city_id"} |-> Num(99)]}

\* the columns of a complete basin08, and the declared ones an incomplete
\* basin08 may lack: a continuous, a vegetation and a categorical one
AllColumns == {"id", "hybas_id"} \cup DeclaredCols
DroppedColumns == {NUMERICAL_FIELDS[Len(NUMERICAL_FIELDS)][1], PNV_FIELDS[3],
                   CATEGORICAL_FIELDS[1][1]}

\* a table without the columns it lacks
Project(rows, cols) == {[c \in (DOMAIN r) \cap cols |-> r[c]] : r \in rows}

\* the contents of basin08 that the runs with a failing or incomplete store
\* are enumerated over
SmallTables == {T \in BasinTables : Cardinality(T) <= 1}

\* the steps at which the store can fail: psycopg.connect, the first query of
\* get_global_ranges, the first query of get_categorical_ids
StoreFaults == {"connect", "ranges", "categories"}

\* and those of populate_whc_matrix.main: psycopg.connect, and the first
\* query of the summary it prints after the commit
WhcStoreFaults == {"connect", "summary"}

LocalsInit ==
  /\ pc = "start"
  /\ exc = ""
  /\ sql_log = <<>>
  /\ ranges = <<>>
  /\ cat_ids = <<>> /\ feature_names = <<>> /\ n_features = 0 /\ cat_id_to_col = <<>>
  /\ n_basins = 0
  /\ result = <<>>
  /\ basin_ids = <<>> /\ dense_data = <<>>
  /\ sparse_rows = <<>> /\ sparse_cols = <<>> /\ sparse_vals = <<>>
  /\ row_idx = 0
  /\ final_matrix = <<>>
  /\ output = NoOutput
  /\ cities = <<>> /\ valid_columns = {} /\ txn = {}
  /\ city_i = 0 /\ inserted = 0 /\ skipped = 0

\* the fetch step of ich_corpus_update.py before it has run
FetchLocalsInit ==
  /\ progress = None /\ already_fetched = {} /\ fetch_i = 0

NoFetch ==
  /\ fetch_targets = <<>> /\ progress_file = None /\ docs = {} /\ new_summaries = None
  /\ FetchLocalsInit
  /\ runs = 0 /\ failures = 0 /\ requested = <<>>

\* the batch scripts of src/scripts/cdop before they have run
CleanLocalsInit ==
  /\ resume = FALSE /\ limit = 0 /\ files = <<>> /\ completed_ids = {} /\ file_i = 0

ExtractLocalsInit ==
  /\ results = None /\ start_idx = 0 /\ doc_i = 0

NoClean ==
  /\ raw_files = <<>> /\ out_files = {} /\ sent = <<>>
  /\ CleanLocalsInit

NoExtract ==
  /\ target_ids = <<>> /\ doc_dir = {} /\ output_file = None
  /\ ExtractLocalsInit

NoCrawl ==
  /\ http_log = <<>> /\ served = {} /\ discovery_file = None /\ discovery = None
  /\ args = [discover |-> FALSE, refresh |-> FALSE, fetch |-> FALSE,
             check_gaps |-> FALSE, fetch_gaps |-> FALSE, limit |-> 0]
  /\ gap_report = None /\ gap_fetch_results = None
  /\ gap_i = 0 /\ gap_results = None

\* <repo>/output without a basin08_pca_coords.npy, and with one of these
\* rows, which may be none
NoCoordsFile == [saved |-> FALSE, coords |-> <<>>]
CoordsFile(coords) == [saved |-> TRUE, coords |-> coords]

\* the rows basin08_pca_clusters holds from an earlier run
OldClusters == {[hybas_id |-> 1, cluster_id |-> 0]}

PipelineLocalsInit ==
  /\ svd_components = None /\ pca_coords = None /\ centroids = None /\ labels = None

NoPipeline ==
  /\ PipelineLocalsInit
  /\ scripts_output = [saved |-> FALSE, matrix |-> <<>>, feature_names |-> <<>>,
                       basin_ids |-> <<>>]
  /\ coords_file = NoCoordsFile
  /\ basin08_pca_clusters = OldClusters

NoBatch == NoClean /\ NoExtract /\ NoCrawl /\ NoPipeline

\* a run on a complete store that answers every statement; the inverted
\* record is met with the lookup tables and the batch size of the script
InitSound ==
  /\ store_fault = ""
  /\ basin08_columns = AllColumns
  /\ basin08 \in BasinTables
  /\ edop_norm_ranges \in (IF script = "sparse" THEN NormRangeTables
                           ELSE WhcRangeTables)
  /\ IF script = "sparse"
     THEN /\ IF edop_norm_ranges = {InvertedRange}
             THEN lu = LuTables(1) /\ batch_size = BATCH_SIZE
             ELSE /\ lu \in {LuTables(c) : c \in LuConfigs}
                  /\ batch_size \in BatchSizes
          /\ matrix_columns = MatrixColumns(1)
     ELSE /\ lu = LuTables(1)
          /\ batch_size = BATCH_SIZE
          /\ matrix_columns \in {MatrixColumns(c) : c \in ColumnConfigs}

\* a run during which the store fails
InitFaulty ==
  /\ store_fault \in (IF script = "sparse" THEN StoreFaults ELSE WhcStoreFaults)
  /\ basin08_columns = AllColumns
  /\ basin08 \in SmallTables
  /\ edop_norm_ranges \in NormRangeTables
  /\ lu = LuTables(1)
  /\ batch_size = BATCH_SIZE
  /\ matrix_columns = MatrixColumns(1)

\* a run on a basin08 that lacks a declared column
InitIncomplete ==
  /\ store_fault = ""
  /\ \E c \in DroppedColumns :
       /\ basin08_columns = AllColumns \ {c}
       /\ basin08 \in {Project(T, AllColumns \ {c}) : T \in SmallTables}
  /\ edop_norm_ranges \in NormRangeTables
  /\ lu = LuTables(1)
  /\ batch_size = BATCH_SIZE
  /\ matrix_columns = MatrixColumns(1)

Init ==
  /\ script \in {"sparse", "whc"}
  /\ wh_cities = WhCities
  /\ whc_matrix = OldMatrix
  /\ writes = 0
  /\ InitSound \/ InitFaulty \/ InitIncomplete
  /\ LocalsInit
  /\ call = NoCall
  /\ NoFetch
  /\ NoBatch

(***************************************************************************)
(* Both scripts: get_db_connection                                         *)
(***************************************************************************)
\* psycopg.connect, before the try block of main
Connect ==
  /\ script \in {"sparse", "whc"} /\ pc = "start"
  /\ IF store_fault = "connect"
     THEN pc' = "failed" /\ exc' = "OperationalError"
     ELSE pc' = "connected" /\ UNCHANGED exc
  /\ UNCHANGED <<script, storeVars, sql_log, ranges, sparseVars, whcVars, call, fetchVars, batchVars>>

(***************************************************************************)
(* basin08_sparse_matrix.main                                              *)
(***************************************************************************)
\* lines 189-192
LoadRanges ==
  /\ script = "sparse" /\ pc = "connected"
  /\ LET cur == [fault |-> store_fault, columns |-> basin08_columns]
         r == get_global_ranges(cur, edop_norm_ranges, basin08)
     IN  /\ sql_log' = sql_log \o RangeStatements(cur, edop_norm_ranges)
         /\ IF r.exc # ""
            THEN /\ pc' = "failed" /\ exc' = r.exc /\ UNCHANGED ranges
            ELSE /\ pc' = "ranges" /\ ranges' = r.val /\ UNCHANGED exc
  /\ UNCHANGED <<script, storeVars, sparseVars, whcVars, call, fetchVars, batchVars>>

\* lines 194-221
LoadCategories ==
  /\ script = "sparse" /\ pc = "ranges"
  /\ IF store_fault = "categories"
     THEN /\ sql_log' = Append(sql_log, CategoryStatements[1])
          /\ pc' = "failed" /\ exc' = "OperationalError"
          /\ UNCHANGED layoutVars
     ELSE /\ sql_log' = sql_log \o CategoryStatements
          /\ cat_ids' = get_categorical_ids(lu)
          /\ feature_names' = build_feature_names(cat_ids')
          /\ n_features' = Len(feature_names')
          /\ cat_id_to_col' = BuildCatIdToCol(cat_ids')
          /\ pc' = "layout"
          /\ UNCHANGED exc
  /\ UNCHANGED <<script, storeVars, ranges, batch_size, n_basins, result,
                 loopVars, final_matrix, output, whcVars, call, fetchVars, batchVars>>

\* lines 223-227
CountBasins ==
  /\ script = "sparse" /\ pc = "layout"
  /\ sql_log' = Append(sql_log, Statement("SELECT", "basin08", "main"))
  /\ n_basins' = Cardinality(basin08)
  /\ pc' = "counted"
  /\ UNCHANGED <<script, exc, storeVars, ranges, batch_size, layoutVars, result,
                 loopVars, final_matrix, output, whcVars, call, fetchVars, batchVars>>

\* lines 229-257; the query names every declared column
QueryBasins ==
  /\ script = "sparse" /\ pc = "counted"
  /\ sql_log' = Append(sql_log, Statement("SELECT", "basin08", "main"))
  /\ IF DeclaredCols \subseteq basin08_columns
     THEN /\ result' = SelectBasins(basin08)
          /\ basin_ids' = <<>>
          /\ dense_data' = [r \in 1..n_basins |-> [c \in 1..CatColOffset |-> Zero]]
          /\ sparse_rows' = <<>> /\ sparse_cols' = <<>> /\ sparse_vals' = <<>>
          /\ row_idx' = 0
          /\ pc' = "fetching"
          /\ UNCHANGED exc
     ELSE /\ pc' = "failed" /\ exc' = "UndefinedColumn"
          /\ UNCHANGED <<result, loopVars>>
  /\ UNCHANGED <<script, storeVars, ranges, batch_size, layoutVars, n_basins,
                 final_matrix, output, whcVars, call, fetchVars, batchVars>>

\* lines 259-300: one fetchmany and the loop over its rows
FetchBatch ==
  /\ script = "sparse" /\ pc = "fetching"
  /\ result # <<>>
  /\ LET n == IF Len(result) < batch_size THEN Len(result) ELSE batch_size
         rows == SubSeq(result, 1, n)
         st == ProcessRows(rows,
                 [basin_ids |-> basin_ids, dense_data |-> dense_data,
                  sparse_rows |-> sparse_rows, sparse_cols |-> sparse_cols,
                  sparse_vals |-> sparse_vals, row_idx |-> row_idx, exc |-> ""],
                 ranges, cat_id_to_col, n_basins)
     IN  /\ result' = SubSeq(result, n + 1, Len(result))
         /\ basin_ids' = st.basin_ids
         /\ dense_data' = st.dense_data
         /\ sparse_rows' = st.sparse_rows
         /\ sparse_cols' = st.sparse_cols
         /\ sparse_vals' = st.sparse_vals
         /\ row_idx' = st.row_idx
         /\ exc' = st.exc
         /\ pc' = IF st.exc # "" THEN "failed" ELSE "fetching"
  /\ UNCHANGED <<script, storeVars, sql_log, ranges, batch_size, layoutVars, n_basins,
                 final_matrix, output, whcVars, call, fetchVars, batchVars>>

\* lines 261-262 and 302-324: the empty fetch ends the loop, the matrix is
\* assembled, and the sparsity is printed
Assemble ==
  /\ script = "sparse" /\ pc = "fetching"
  /\ result = <<>>
  /\ final_matrix' = AssembleMatrix(dense_data, sparse_rows, sparse_cols, sparse_vals,
                                    n_basins, n_features)
  /\ IF n_basins * n_features = 0
     THEN pc' = "failed" /\ exc' = "ZeroDivisionError"
     ELSE pc' = "assembled" /\ UNCHANGED exc
  /\ UNCHANGED <<script, storeVars, sql_log, ranges, batch_size, layoutVars, n_basins,
                 result, loopVars, output, whcVars, call, fetchVars, batchVars>>

\* lines 326-344
SaveOutputs ==
  /\ script = "sparse" /\ pc = "assembled"
  /\ output' = [saved |-> TRUE, matrix |-> final_matrix,
                feature_names |-> feature_names, basin_ids |-> basin_ids]
  /\ pc' = "done"
  /\ UNCHANGED <<script, exc, storeVars, sql_log, ranges, batch_size, layoutVars,
                 n_basins, result, loopVars, final_matrix, whcVars, call, fetchVars, batchVars>>

(***************************************************************************)
(* populate_whc_matrix.main                                                *)
(***************************************************************************)
\* lines 252-255
WhcLoadCities ==
  /\ script = "whc" /\ pc = "connected"
  /\ sql_log' = Append(sql_log, Statement("SELECT", "wh_cities", "get_cities_with_basins"))
  /\ cities' = get_cities_with_basins(wh_cities)
  /\ pc' = "cities"
  /\ UNCHANGED <<script, exc, storeVars, ranges, sparseVars,
                 valid_columns, txn, city_i, inserted, skipped, call, fetchVars, batchVars>>

\* lines 257-260; a missing record raises, and lines 316-319 roll back
WhcLoadRanges ==
  /\ script = "whc" /\ pc = "cities"
  /\ LET r == get_norm_ranges(edop_norm_ranges)
     IN  IF r.exc # ""
         THEN /\ pc' = "failed" /\ exc' = r.exc /\ UNCHANGED ranges
              /\ sql_log' = sql_log \o
                   << Statement("SELECT", "edop_norm_ranges", "get_norm_ranges"),
                      Statement("ROLLBACK", "", "main") >>
         ELSE /\ pc' = "ranges" /\ ranges' = r.val /\ UNCHANGED exc
              /\ sql_log' = Append(sql_log,
                   Statement("SELECT", "edop_norm_ranges", "get_norm_ranges"))
  /\ UNCHANGED <<script, storeVars, sparseVars, whcVars, call, fetchVars, batchVars>>

\* lines 262-265
WhcLoadColumns ==
  /\ script = "whc" /\ pc = "ranges"
  /\ sql_log' = Append(sql_log,
       Statement("SELECT", "information_schema.columns", "get_matrix_columns"))
  /\ valid_columns' = matrix_columns
  /\ pc' = "columns"
  /\ UNCHANGED <<script, exc, storeVars, ranges, sparseVars,
                 cities, txn, city_i, inserted, skipped, call, fetchVars, batchVars>>

\* lines 267-274: DELETE FROM whc_matrix, inside the transaction
WhcDelete ==
  /\ script = "whc" /\ pc = "columns"
  /\ sql_log' = Append(sql_log, Statement("DELETE", "whc_matrix", "main"))
  /\ txn' = {}
  /\ city_i' = 0 /\ inserted' = 0 /\ skipped' = 0
  /\ pc' = "loop"
  /\ UNCHANGED <<script, exc, storeVars, ranges, sparseVars, cities, valid_columns, call, fetchVars, batchVars>>

\* lines 276-289: one city; the query of get_basin_data names every declared
\* column, and lines 316-319 roll back when it raises
WhcCity ==
  /\ script = "whc" /\ pc = "loop"
  /\ city_i < Len(cities)
  /\ IF DeclaredCols \subseteq basin08_columns
     THEN LET city == cities[city_i + 1]
              basin_data == get_basin_data(basin08, city.basin_id[1])
          IN  /\ IF basin_data # None
                 THEN /\ txn' = txn \cup
                           {build_matrix_row(city, basin_data, ranges, valid_columns)}
                      /\ inserted' = inserted + 1
                      /\ sql_log' = sql_log \o
                           << Statement("SELECT", "basin08", "get_basin_data"),
                              Statement("INSERT", "whc_matrix", "insert_matrix_row") >>
                      /\ UNCHANGED skipped
                 ELSE /\ skipped' = skipped + 1
                      /\ sql_log' = Append(sql_log,
                           Statement("SELECT", "basin08", "get_basin_data"))
                      /\ UNCHANGED <<txn, inserted>>
              /\ city_i' = city_i + 1
              /\ UNCHANGED <<pc, exc>>
     ELSE /\ pc' = "failed" /\ exc' = "UndefinedColumn"
          /\ txn' = {}
          /\ sql_log' = sql_log \o
               << Statement("SELECT", "basin08", "get_basin_data"),
                  Statement("ROLLBACK", "", "main") >>
          /\ UNCHANGED <<city_i, inserted, skipped>>
  /\ UNCHANGED <<script, storeVars, ranges, sparseVars, cities, valid_columns, call, fetchVars, batchVars>>

\* faulty variant: the DELETE is not part of what is committed
conn_commit_keeping(stored, pending) == stored \cup pending

\* line 292: the DELETE and the INSERTs of the transaction take effect
conn_commit(stored, pending) == pending

\* lines 291-293
WhcCommit ==
  /\ script = "whc" /\ pc = "loop"
  /\ city_i = Len(cities)
  /\ sql_log' = Append(sql_log, Statement("COMMIT", "", "main"))
  /\ whc_matrix' = conn_commit(whc_matrix, txn)
  /\ pc' = "committed"
  /\ UNCHANGED <<script, exc, basin08, edop_norm_ranges, lu, wh_cities, matrix_columns,
                 basin08_columns, store_fault, writes,
                 ranges, sparseVars, whcVars, call, fetchVars, batchVars>>

\* the columns the sample query of lines 303-310 names
SAMPLE_COLUMNS == <<"n_temp_yr", "n_precip_yr", "n_elev_min">>

\* bool(x) of a number or None
Truthy(x) == x # None /\ x # Zero

\* lines 300-314: the row count and the sample of the first 5 rows, printed
\* after the commit; the sample query needs its three columns, and a row
\* with a temperature is formatted with :.3f, which None does not take
print_summary(rows, columns) ==
  LET sample == {r \in rows :
                   Cardinality({q \in rows : q["city_id"][1] < r["city_id"][1]}) < 5}
  IN  IF ~({SAMPLE_COLUMNS[k] : k \in 1..Len(SAMPLE_COLUMNS)} \subseteq columns)
      THEN Raise("UndefinedColumn")
      ELSE IF \E r \in sample :
                /\ Truthy(DictGet(r, SAMPLE_COLUMNS[1]))
                /\ \/ DictGet(r, SAMPLE_COLUMNS[2]) = None
                   \/ DictGet(r, SAMPLE_COLUMNS[3]) = None
      THEN Raise("TypeError")
      ELSE Return(Cardinality(rows))

\* lines 295-319: the summary.  The store may fail at the count query of
\* line 300; the sample query of line 305 is sent after the count has been
\* answered, and raises for a missing column; the formatting of line 314
\* raises after both.  The rollback of line 317 finds nothing to undo
WhcSummary ==
  /\ script = "whc" /\ pc = "committed"
  /\ LET r == IF store_fault = "summary" THEN Raise("OperationalError")
              ELSE print_summary(whc_matrix, matrix_columns)
     IN  IF store_fault = "summary"
         THEN /\ pc' = "summary_failed" /\ exc' = r.exc
              /\ sql_log' = sql_log \o
                   << Statement("SELECT", "whc_matrix", "main"),
                      Statement("ROLLBACK", "", "main") >>
         ELSE IF r.exc # ""
         THEN /\ pc' = "summary_failed" /\ exc' = r.exc
              /\ sql_log' = sql_log \o
                   << Statement("SELECT", "whc_matrix", "main"),
                      Statement("SELECT", "whc_matrix", "main"),
                      Statement("ROLLBACK", "", "main") >>
         ELSE /\ pc' = "done" /\ UNCHANGED exc
              /\ sql_log' = sql_log \o
                   << Statement("SELECT", "whc_matrix", "main"),
                      Statement("SELECT", "whc_matrix", "main") >>
  /\ UNCHANGED <<script, storeVars, ranges, sparseVars, whcVars, call, fetchVars, batchVars>>

Next ==
  \/ Connect
  \/ LoadRanges
  \/ LoadCategories
  \/ CountBasins
  \/ QueryBasins
  \/ FetchBatch
  \/ Assemble
  \/ SaveOutputs
  \/ WhcLoadCities
  \/ WhcLoadRanges
  \/ WhcLoadColumns
  \/ WhcDelete
  \/ WhcCity
  \/ WhcCommit
  \/ WhcSummary

Spec == Init /\ [][Next]_vars

(***************************************************************************)
(* basin08_sparse_matrix.main while another session writes to basin08      *)
(* between the row count of line 225 and the SELECT of lines 236-241.      *)
(***************************************************************************)
MaxWrites == 1

\* another session commits an INSERT or a DELETE on basin08
OtherSession ==
  /\ script = "sparse" /\ pc = "counted"
  /\ writes < MaxWrites
  /\ \/ \E h \in 1..(MaxBasins + 1) :
          /\ \A r \in basin08 : r["id"] # h
          /\ basin08' = basin08 \cup {BasinRow(h, 1)}
     \/ \E r \in basin08 : basin08' = basin08 \ {r}
  /\ writes' = writes + 1
  /\ UNCHANGED <<script, pc, exc, edop_norm_ranges, lu, wh_cities, matrix_columns,
                 whc_matrix, basin08_columns, store_fault, sql_log, ranges,
                 sparseVars, whcVars, call, fetchVars, batchVars>>

ConcurrentInit ==
  /\ Init
  /\ store_fault = ""
  /\ lu = LuTables(1)
  /\ edop_norm_ranges = {RangeRecord(NUMERICAL_FIELDS)}
  /\ matrix_columns = MatrixColumns(1)

ConcurrentNext == Next \/ OtherSession

SpecConcurrent == ConcurrentInit /\ [][ConcurrentNext]_vars

(***************************************************************************)
(* Single calls of normalize_value, over bounded arguments.                *)
(***************************************************************************)
ArgValues == {None} \cup {Rat(n, d) : n \in (-MaxVal)..MaxVal, d \in {1, 10}}

NormalizeInit ==
  /\ script = "normalize"
  /\ basin08 = {} /\ edop_norm_ranges = {} /\ lu = LuTables(1)
  /\ wh_cities = {} /\ matrix_columns = {} /\ whc_matrix = {}
  /\ basin08_columns = AllColumns /\ store_fault = "" /\ writes = 0
  /\ batch_size = BATCH_SIZE
  /\ LocalsInit
  /\ call \in {[NoCall EXCEPT !.fn = "normalize_value",
                              !.value = v, !.min_val = lo, !.max_val = hi] :
                 v \in ArgValues, lo \in ArgValues, hi \in ArgValues}
  /\ NoFetch
  /\ NoBatch

CallNormalize ==
  /\ script = "normalize"
  /\ ~call.done
  /\ call' = [call EXCEPT
                !.done = TRUE,
                !.result = normalize_value(call.value, call.min_val, call.max_val),
                !.whc_result = whc_normalize_value(call.value, call.min_val, call.max_val),
                !.again = normalize_value(
                            normalize_value(call.value, call.min_val, call.max_val),
                            call.min_val, call.max_val)]
  /\ UNCHANGED <<script, pc, exc, storeVars, sql_log, ranges, sparseVars, whcVars,
                 fetchVars, batchVars>>

NormalizeNext == CallNormalize

SpecNormalize == NormalizeInit /\ [][NormalizeNext]_vars

(***************************************************************************)
(* ich_corpus_update.py: main and its steps discover, fetch, check-gaps    *)
(* and fetch-gaps, run again and again.  An ich_id is a number here; a     *)
(* result is the page_data of an element, of which its ich_id and          *)
(* doc_downloaded are kept.  A step of the model ends where the script     *)
(* waits: in polite_request, for the sleep and the response.               *)
(***************************************************************************)
CHECKPOINT_EVERY == 10
MaxTargets == 11
MaxRuns == 2
MaxFailures == 1

\* the target lists: elements with distinct ich_ids, and lists in which the
\* last target carries the ich_id of the first
DistinctTargets(n) == [k \in 1..n |-> k]
RepeatingTargets(n) == [k \in 1..n |-> IF k = n THEN 1 ELSE k]
TargetLists ==
  {DistinctTargets(n) : n \in {0, 1, 2, MaxTargets}}
  \cup {RepeatingTargets(n) : n \in {2, MaxTargets}}

\* parse_element_page finds a nomination form link on the page
HasDocLink(ich_id) == ich_id % 2 = 1

\* the content-type header of a nomination file
MSWORD == "application/msword"
PDF == "application/pdf"
OPENXML == "application/vnd.openxmlformats-officedocument.wordprocessingml.document"
ContentTypes == {MSWORD, PDF, OPENXML}

\* lines 473-478 and 670-677: the extension of the saved file, '.doc'
\* unless the content type holds 'pdf' or 'openxmlformats'
Extension(content_type) ==
  IF content_type = PDF THEN ".pdf"
  ELSE IF content_type = OPENXML THEN ".docx"
  ELSE ".doc"

\* the file PDF_DIR / f"{ich_id}_nomination{ext}"
DocFile(ich_id, ext) == [ich_id |-> ich_id, ext |-> ext]

\* lines 860-883: the arguments of a run; limit 0 is no --limit, and a run
\* without any step is a run of --discover.  --extract and --all, which
\* send no request of their own, are left out
parse_args(a) ==
  IF ~(a.discover \/ a.fetch \/ a.check_gaps \/ a.fetch_gaps)
  THEN [a EXCEPT !.discover = TRUE] ELSE a

NoArgs == [discover |-> FALSE, refresh |-> FALSE, fetch |-> FALSE,
           check_gaps |-> FALSE, fetch_gaps |-> FALSE, limit |-> 0]

\* --fetch
FetchOnly == [NoArgs EXCEPT !.fetch = TRUE]

\* lines 424-425, 550-551, 636-637, and ich_clean_batch.py lines 130-131:
\* the list cut to its first n items when a limit is given
Limited(targets, n) ==
  IF n # 0
  THEN SubSeq(targets, 1, IF n < Len(targets) THEN n ELSE Len(targets))
  ELSE targets

NoProgress == [fetched |-> <<>>, failed |-> <<>>, results |-> <<>>]

ToSet(seq) == {seq[k] : k \in 1..Len(seq)}

\* a discovery: the elements of 2024-2025 and the older ones without file
Discovery(new_elements, missing_docs) ==
  [new_elements |-> new_elements, missing_docs |-> missing_docs]

\* runs of main --fetch over a discovery.json that holds the targets
FetchInit ==
  /\ script = "fetch"
  /\ basin08 = {} /\ edop_norm_ranges = {} /\ lu = LuTables(1)
  /\ wh_cities = {} /\ matrix_columns = {} /\ whc_matrix = {}
  /\ basin08_columns = AllColumns /\ store_fault = "" /\ writes = 0
  /\ batch_size = BATCH_SIZE
  /\ LocalsInit
  /\ call = NoCall
  /\ fetch_targets = <<>>
  /\ progress_file = None /\ docs = {} /\ new_summaries = None
  /\ FetchLocalsInit
  /\ runs = 1 /\ failures = 0 /\ requested = <<>>
  /\ NoClean /\ NoExtract /\ NoPipeline
  /\ http_log = <<>> /\ args = FetchOnly
  /\ served \in {{content_type} : content_type \in ContentTypes}
  /\ \E targets \in TargetLists : discovery_file = Discovery(targets, <<>>)
  /\ discovery = None /\ gap_report = None /\ gap_fetch_results = None
  /\ gap_i = 0 /\ gap_results = None

buildVars == <<exc, storeVars, sql_log, ranges, sparseVars, whcVars, call>>
otherVars == <<script, buildVars, cleanVars, extractVars, pipeVars>>
gapVars == <<gap_report, gap_fetch_results, gap_i, gap_results>>

\* main, lines 907-937: the step that follows the discovery, the fetch and
\* the gap check, by the arguments
AfterStep2b == IF args.fetch_gaps THEN "fetch_gaps" ELSE "done"
AfterStep2 == IF args.check_gaps THEN "check_gaps" ELSE AfterStep2b
AfterStep1 == IF args.fetch THEN "fetch" ELSE "load_progress"

\* main, lines 896-904: without --discover the discovery is loaded from
\* discovery.json, and main returns when the file is not there
LoadDiscovery ==
  /\ script = "fetch" /\ pc = "start"
  /\ ~args.discover
  /\ discovery' = discovery_file
  /\ pc' = IF discovery_file = None THEN "returned" ELSE AfterStep1
  /\ UNCHANGED <<otherVars, fetchVars, http_log, served, args, discovery_file, gapVars>>

\* main lines 907-916 and fetch_elements lines 420-437: the targets are the
\* new elements (main empties 'missing_docs'), cut to the limit; the
\* progress is loaded from the file, or starts empty
FetchStart ==
  /\ script = "fetch" /\ pc = "fetch"
  /\ fetch_targets' = Limited(discovery.new_elements \o <<>>, args.limit)
  /\ progress' = IF progress_file # None THEN progress_file ELSE NoProgress
  /\ already_fetched' = ToSet(progress'.fetched)
  /\ fetch_i' = 0
  /\ pc' = "loop"
  /\ UNCHANGED <<otherVars, crawlVars, progress_file, docs, new_summaries,
                 runs, failures, requested>>

\* lines 439-444: a target found in already_fetched is passed over
FetchSkip ==
  /\ script = "fetch" /\ pc = "loop"
  /\ fetch_i < Len(fetch_targets)
  /\ fetch_targets[fetch_i + 1] \in already_fetched
  /\ fetch_i' = fetch_i + 1
  /\ UNCHANGED <<otherVars, crawlVars, pc, fetch_targets, progress_file, docs,
                 new_summaries, progress, already_fetched, runs, failures, requested>>

\* line 93
REQUEST_DELAY == One

\* the urls: the list page, the page of an element, its nomination file
LIST_URL == [kind |-> "list", ich_id |-> 0]
PageUrl(ich_id) == [kind |-> "page", ich_id |-> ich_id]
DocUrl(ich_id) == [kind |-> "doc", ich_id |-> ich_id]

\* faulty variant: the request is sent at once
polite_request_no_sleep(log, url, delay, ok) ==
  [log |-> Append(log, [op |-> "get", url |-> url]),
   response |-> IF ok THEN <<url>> ELSE None]

\* lines 114-123: sleep, then the request; None when it fails.  log is the
\* history of the requests sent, ok whether the server answers with success
polite_request(log, url, delay, ok) ==
  [log |-> log \o <<[op |-> "sleep", delay |-> delay], [op |-> "get", url |-> url]>>,
   response |-> IF ok THEN <<url>> ELSE None]

\* the page request of one target, as the log keeps it
PageRequest(ich_id, ok) ==
  [ich_id |-> ich_id, run |-> runs, ok |-> ok,
   recorded |-> progress_file # None /\ ich_id \in ToSet(progress_file.fetched)]

\* lines 497-499: the element is recorded
record_element(prog, ich_id, doc_downloaded) ==
  [prog EXCEPT !.fetched = Append(@, ich_id),
               !.results = Append(@, [ich_id |-> ich_id,
                                      doc_downloaded |-> doc_downloaded])]

\* lines 501-505: every tenth target saves the progress
save_checkpoint(i, prog, on_disk) ==
  IF (i + 1) % CHECKPOINT_EVERY = 0 THEN prog ELSE on_disk

\* lines 446-453: polite_request returns None and the target is noted as
\* failed
FetchPageFailed ==
  /\ script = "fetch" /\ pc = "loop"
  /\ fetch_i < Len(fetch_targets)
  /\ fetch_targets[fetch_i + 1] \notin already_fetched
  /\ failures < MaxFailures
  /\ LET ich_id == fetch_targets[fetch_i + 1]
         response == polite_request(http_log, PageUrl(ich_id), REQUEST_DELAY, FALSE)
     IN  /\ response.response = None
         /\ http_log' = response.log
         /\ requested' = Append(requested, PageRequest(ich_id, FALSE))
         /\ progress' = [progress EXCEPT !.failed = Append(@, ich_id)]
  /\ failures' = failures + 1
  /\ fetch_i' = fetch_i + 1
  /\ UNCHANGED <<otherVars, pc, served, args, discovery_file, discovery, gapVars, fetch_targets,
                 progress_file, docs, new_summaries, already_fetched, runs>>

\* lines 446-469 and 489-505: the page arrives.  When it links a nomination
\* file and <ich_id>_nomination.doc is not on disk, the file is requested
\* next; otherwise the element is recorded, and every tenth target saves the
\* progress
FetchPage ==
  /\ script = "fetch" /\ pc = "loop"
  /\ fetch_i < Len(fetch_targets)
  /\ fetch_targets[fetch_i + 1] \notin already_fetched
  /\ LET ich_id == fetch_targets[fetch_i + 1]
         response == polite_request(http_log, PageUrl(ich_id), REQUEST_DELAY, TRUE)
         download == HasDocLink(ich_id) /\ DocFile(ich_id, ".doc") \notin docs
         recorded == record_element(progress, ich_id, HasDocLink(ich_id))
     IN  /\ response.response # None
         /\ http_log' = response.log
         /\ requested' = Append(requested, PageRequest(ich_id, TRUE))
         /\ IF download
            THEN /\ pc' = "doc"
                 /\ UNCHANGED <<progress, progress_file, fetch_i>>
            ELSE /\ progress' = recorded
                 /\ progress_file' = save_checkpoint(fetch_i, recorded, progress_file)
                 /\ fetch_i' = fetch_i + 1
                 /\ pc' = pc
  /\ UNCHANGED <<otherVars, served, args, discovery_file, discovery, gapVars, fetch_targets, docs,
                 new_summaries, already_fetched, runs, failures>>

\* lines 471-488 and 497-505: the nomination file is requested; an answer is
\* saved under the extension its content type gives, which need not be
\* '.doc'; the element is recorded, and every tenth target saves the progress
FetchDoc ==
  /\ script = "fetch" /\ pc = "doc"
  /\ \E doc_ok \in BOOLEAN, content_type \in served :
       LET ich_id == fetch_targets[fetch_i + 1]
           doc_response == polite_request(http_log, DocUrl(ich_id), REQUEST_DELAY, doc_ok)
           recorded == record_element(progress, ich_id, doc_response.response # None)
       IN  /\ doc_ok \/ failures < MaxFailures
           /\ http_log' = doc_response.log
           /\ docs' = IF doc_response.response # None
                      THEN docs \cup {DocFile(ich_id, Extension(content_type))}
                      ELSE docs
           /\ failures' = IF doc_ok THEN failures ELSE failures + 1
           /\ progress' = recorded
           /\ progress_file' = save_checkpoint(fetch_i, recorded, progress_file)
  /\ fetch_i' = fetch_i + 1
  /\ pc' = "loop"
  /\ UNCHANGED <<otherVars, served, args, discovery_file, discovery, gapVars, fetch_targets,
                 new_summaries, already_fetched, runs, requested>>

\* lines 507-534: the final save and new_summaries.json; main goes on with
\* the progress returned
FetchFinish ==
  /\ script = "fetch" /\ pc = "loop"
  /\ fetch_i = Len(fetch_targets)
  /\ progress_file' = progress
  /\ new_summaries' = [k \in 1..Len(progress.results) |-> progress.results[k].ich_id]
  /\ pc' = AfterStep2
  /\ UNCHANGED <<otherVars, crawlVars, fetch_targets, docs, progress, already_fetched,
                 fetch_i, runs, failures, requested>>

\* the process is stopped inside one of the loops (lines 439-505, 564-590,
\* 650-690), none of which has a handler: what was not saved is lost
FetchInterrupt ==
  /\ script = "fetch"
  /\ \/ pc = "loop" /\ fetch_i < Len(fetch_targets)
     \/ pc = "doc"
     \/ pc \in {"check_gaps_loop", "fetch_gaps_loop"}
  /\ pc' = "interrupted"
  /\ UNCHANGED <<otherVars, fetchVars, crawlVars>>

\* lines 879-885: the script is started again, with the arguments given
main(a) ==
  /\ runs' = runs + 1
  /\ args' = parse_args(a)
  /\ pc' = "start"
  /\ fetch_targets' = <<>> /\ progress' = None /\ already_fetched' = {} /\ fetch_i' = 0
  /\ discovery' = None /\ gap_i' = 0 /\ gap_results' = None
  /\ UNCHANGED <<otherVars, progress_file, docs, new_summaries, failures, requested,
                 http_log, served, discovery_file, gap_report, gap_fetch_results>>

\* the script is started again with --fetch
FetchAgain ==
  /\ script = "fetch" /\ pc \in {"done", "interrupted", "returned"}
  /\ runs < MaxRuns
  /\ main(FetchOnly)

FetchNext ==
  \/ LoadDiscovery
  \/ FetchStart
  \/ FetchSkip
  \/ FetchPageFailed
  \/ FetchPage
  \/ FetchDoc
  \/ FetchFinish
  \/ FetchInterrupt
  \/ FetchAgain

SpecFetch == FetchInit /\ [][FetchNext]_vars

(***************************************************************************)
(* ich_corpus_update.py: the other steps of main, --discover, --check-gaps *)
(* and --fetch-gaps, over short lists of elements.                         *)
(***************************************************************************)
MaxGaps == 2

\* the ich_id of the k-th element of discovery['missing_docs']
GapId(k) == MaxTargets + k

\* line 568: the delay of a gap check
GAP_CHECK_DELAY == Half

\* line 588: the gap report is saved every 20 elements
GAP_SAVE_EVERY == 20

\* the lists of new elements a list page shows
CrawlTargetLists == {DistinctTargets(1), RepeatingTargets(2)}

\* the arguments of a run: no argument, --discover --refresh --fetch,
\* --fetch, --check-gaps, --check-gaps --fetch-gaps, and --fetch-gaps
\* --limit 1
CrawlArgs ==
  {parse_args(a) : a \in
     {NoArgs,
      [NoArgs EXCEPT !.discover = TRUE, !.refresh = TRUE, !.fetch = TRUE],
      FetchOnly,
      [NoArgs EXCEPT !.check_gaps = TRUE],
      [NoArgs EXCEPT !.check_gaps = TRUE, !.fetch_gaps = TRUE],
      [NoArgs EXCEPT !.fetch_gaps = TRUE, !.limit = 1]}}

\* lines 223-317: the cached discovery is returned unless a refresh is
\* asked for; otherwise the list page is requested, without the page the
\* local copy is parsed, and without both the step returns None.  What is
\* found is saved to discovery.json.  new_elements and n_missing are what
\* the parsed list gives
discover_targets(log, cached, force_refresh, local_list, ok, new_elements, n_missing) ==
  IF cached # None /\ ~force_refresh
  THEN [log |-> log, discovery |-> cached, file |-> cached]
  ELSE LET response == polite_request(log, LIST_URL, REQUEST_DELAY, ok)
           found == Discovery(new_elements, [k \in 1..n_missing |-> GapId(k)])
       IN  IF response.response = None /\ ~local_list
           THEN [log |-> response.log, discovery |-> None, file |-> cached]
           ELSE [log |-> response.log, discovery |-> found, file |-> found]

NoGapReport == [has_docs |-> <<>>, no_docs |-> <<>>, errors |-> <<>>]

\* lines 565-585: one element is checked
check_gap_element(log, ich_id, ok, report) ==
  LET response == polite_request(log, PageUrl(ich_id), GAP_CHECK_DELAY, ok)
  IN  [log |-> response.log,
       response |-> response.response,
       results |-> IF response.response = None
                   THEN [report EXCEPT !.errors = Append(@, ich_id)]
                   ELSE IF HasDocLink(ich_id)
                        THEN [report EXCEPT !.has_docs = Append(@, ich_id)]
                        ELSE [report EXCEPT !.no_docs = Append(@, ich_id)]]

NoGapResults == [downloaded |-> <<>>, skipped |-> <<>>, failed |-> <<>>]

\* line 660: the files <ich_id>_nomination.* on disk
existing_files(ich_id, on_disk) == {f \in on_disk : f.ich_id = ich_id}

\* lines 668-690: the file of one element is requested, and an answer is
\* saved under the extension its content type gives
fetch_gap_doc(log, ich_id, ok, content_type, on_disk, res) ==
  LET doc_response == polite_request(log, DocUrl(ich_id), REQUEST_DELAY, ok)
      doc_path == DocFile(ich_id, Extension(content_type))
  IN  [log |-> doc_response.log,
       docs |-> IF doc_response.response # None THEN on_disk \cup {doc_path}
                ELSE on_disk,
       results |-> IF doc_response.response # None
                   THEN [res EXCEPT !.downloaded = Append(@, doc_path)]
                   ELSE [res EXCEPT !.failed = Append(@, ich_id)]]

\* main, lines 939-949: the downloads whose ich_id the progress does not
\* list as fetched are added to its results
RECURSIVE add_downloads(_, _, _)
add_downloads(prog, downloaded, k) ==
  IF k > Len(downloaded) THEN prog
  ELSE add_downloads(
         IF downloaded[k].ich_id \notin ToSet(prog.fetched)
         THEN [prog EXCEPT !.results = Append(@, [ich_id |-> downloaded[k].ich_id,
                                                  doc_downloaded |-> TRUE])]
         ELSE prog,
         downloaded, k + 1)

\* runs of main with any arguments, the first one with or without a
\* discovery.json that an earlier run has left
CrawlInit ==
  /\ script = "fetch"
  /\ basin08 = {} /\ edop_norm_ranges = {} /\ lu = LuTables(1)
  /\ wh_cities = {} /\ matrix_columns = {} /\ whc_matrix = {}
  /\ basin08_columns = AllColumns /\ store_fault = "" /\ writes = 0
  /\ batch_size = BATCH_SIZE
  /\ LocalsInit
  /\ call = NoCall
  /\ fetch_targets = <<>>
  /\ progress_file = None /\ docs = {} /\ new_summaries = None
  /\ FetchLocalsInit
  /\ runs = 1 /\ failures = 0 /\ requested = <<>>
  /\ NoClean /\ NoExtract /\ NoPipeline
  /\ http_log = <<>> /\ args \in CrawlArgs
  /\ served \in {{content_type} : content_type \in ContentTypes}
  /\ discovery_file \in {None, Discovery(DistinctTargets(1),
                                        [k \in 1..MaxGaps |-> GapId(k)])}
  /\ discovery = None /\ gap_report = None /\ gap_fetch_results = None
  /\ gap_i = 0 /\ gap_results = None

\* main, lines 888-895 and discover_targets: --discover; main returns when
\* the discovery fails
Discover ==
  /\ script = "fetch" /\ pc = "start"
  /\ args.discover
  /\ \E local_list \in BOOLEAN, ok \in BOOLEAN, new_elements \in CrawlTargetLists,
        n_missing \in {0, MaxGaps} :
       LET r == discover_targets(http_log, discovery_file, args.refresh, local_list, ok,
                                 new_elements, n_missing)
       IN  /\ http_log' = r.log
           /\ discovery' = r.discovery
           /\ discovery_file' = r.file
           /\ pc' = IF r.discovery = None THEN "returned" ELSE AfterStep1
  /\ UNCHANGED <<otherVars, fetchVars, served, args, gapVars>>

\* main, lines 917-923: without --fetch the progress is loaded from
\* fetch_progress.json, None when the file is not there
LoadProgress ==
  /\ script = "fetch" /\ pc = "load_progress"
  /\ progress' = progress_file
  /\ pc' = AfterStep2
  /\ UNCHANGED <<otherVars, crawlVars, fetch_targets, progress_file, docs, new_summaries,
                 already_fetched, fetch_i, runs, failures, requested>>

\* the elements check_gap_elements goes through, lines 547-551
GapTargets == Limited(discovery.missing_docs, args.limit)

\* check_gap_elements, lines 547-562
CheckGapsStart ==
  /\ script = "fetch" /\ pc = "check_gaps"
  /\ gap_i' = 0
  /\ gap_results' = NoGapReport
  /\ pc' = "check_gaps_loop"
  /\ UNCHANGED <<otherVars, fetchVars, http_log, served, args, discovery_file, discovery,
                 gap_report, gap_fetch_results>>

\* lines 564-590: one element is checked; the report is saved at every
\* twentieth element whose page has arrived
CheckGap ==
  /\ script = "fetch" /\ pc = "check_gaps_loop"
  /\ gap_i < Len(GapTargets)
  /\ \E ok \in BOOLEAN :
       LET r == check_gap_element(http_log, GapTargets[gap_i + 1], ok, gap_results)
       IN  /\ http_log' = r.log
           /\ gap_results' = r.results
           /\ gap_report' = IF r.response # None /\ (gap_i + 1) % GAP_SAVE_EVERY = 0
                            THEN r.results ELSE gap_report
  /\ gap_i' = gap_i + 1
  /\ UNCHANGED <<otherVars, fetchVars, pc, served, args, discovery_file, discovery,
                 gap_fetch_results>>

\* lines 592-612: the final save of the report
CheckGapsFinish ==
  /\ script = "fetch" /\ pc = "check_gaps_loop"
  /\ gap_i = Len(GapTargets)
  /\ gap_report' = gap_results
  /\ pc' = AfterStep2b
  /\ UNCHANGED <<otherVars, fetchVars, http_log, served, args, discovery_file, discovery,
                 gap_fetch_results, gap_i, gap_results>>

\* the elements fetch_gap_docs goes through, lines 632-637
GapDocTargets == Limited(gap_report.has_docs, args.limit)

\* fetch_gap_docs, lines 622-648: nothing is done, and None returned,
\* without a report that names elements with a file
FetchGapsStart ==
  /\ script = "fetch" /\ pc = "fetch_gaps"
  /\ gap_i' = 0
  /\ IF gap_report = None \/ gap_report.has_docs = <<>>
     THEN /\ gap_results' = None
          /\ pc' = "done"
     ELSE /\ gap_results' = NoGapResults
          /\ pc' = "fetch_gaps_loop"
  /\ UNCHANGED <<otherVars, fetchVars, http_log, served, args, discovery_file, discovery,
                 gap_report, gap_fetch_results>>

\* lines 650-665: an element with a file on disk, of any extension, is
\* passed over (every element of the report has a doc_url)
FetchGapSkip ==
  /\ script = "fetch" /\ pc = "fetch_gaps_loop"
  /\ gap_i < Len(GapDocTargets)
  /\ existing_files(GapDocTargets[gap_i + 1], docs) # {}
  /\ gap_results' = [gap_results EXCEPT !.skipped = Append(@, GapDocTargets[gap_i + 1])]
  /\ gap_i' = gap_i + 1
  /\ UNCHANGED <<otherVars, fetchVars, pc, http_log, served, args, discovery_file, discovery,
                 gap_report, gap_fetch_results>>

\* lines 667-690: the file of one element is requested
FetchGapDoc ==
  /\ script = "fetch" /\ pc = "fetch_gaps_loop"
  /\ gap_i < Len(GapDocTargets)
  /\ existing_files(GapDocTargets[gap_i + 1], docs) = {}
  /\ \E ok \in BOOLEAN, content_type \in served :
       LET r == fetch_gap_doc(http_log, GapDocTargets[gap_i + 1], ok, content_type, docs,
                              gap_results)
       IN  /\ http_log' = r.log
           /\ docs' = r.docs
           /\ gap_results' = r.results
  /\ gap_i' = gap_i + 1
  /\ UNCHANGED <<otherVars, pc, served, args, discovery_file, discovery, gap_report,
                 gap_fetch_results, fetch_targets, progress_file, new_summaries, progress,
                 already_fetched, fetch_i, runs, failures, requested>>

\* lines 692-703 and main, lines 938-949: the results are saved, and the
\* downloads are added to the progress main holds
FetchGapsFinish ==
  /\ script = "fetch" /\ pc = "fetch_gaps_loop"
  /\ gap_i = Len(GapDocTargets)
  /\ gap_fetch_results' = gap_results
  /\ progress' = IF gap_results.downloaded # <<>>
                 THEN add_downloads(IF progress = None THEN NoProgress ELSE progress,
                                    gap_results.downloaded, 1)
                 ELSE progress
  /\ pc' = "done"
  /\ UNCHANGED <<otherVars, http_log, served, args, discovery_file, discovery, gap_report, gap_i,
                 gap_results, fetch_targets, progress_file, docs, new_summaries,
                 already_fetched, fetch_i, runs, failures, requested>>

\* the script is started again, with any arguments
MainAgain ==
  /\ script = "fetch" /\ pc \in {"done", "interrupted", "returned"}
  /\ runs < MaxRuns
  /\ \E a \in CrawlArgs : main(a)

CrawlNext ==
  \/ Discover
  \/ LoadDiscovery
  \/ FetchStart
  \/ FetchSkip
  \/ FetchPageFailed
  \/ FetchPage
  \/ FetchDoc
  \/ FetchFinish
  \/ LoadProgress
  \/ CheckGapsStart
  \/ CheckGap
  \/ CheckGapsFinish
  \/ FetchGapsStart
  \/ FetchGapSkip
  \/ FetchGapDoc
  \/ FetchGapsFinish
  \/ FetchInterrupt
  \/ MainAgain

SpecCrawl == CrawlInit /\ [][CrawlNext]_vars

(***************************************************************************)
(* ich_clean_batch.py: main, run again and again over the same raw files,  *)
(* each run with its own --resume and --limit.  An ich_id is a number;     *)
(* progress and progress_file are the script's progress and                *)
(* clean_progress.json.                                                    *)
(***************************************************************************)
\* the listings of RAW_DIR, in any order: files with distinct ich_ids, and
\* two files of one ich_id
FileLists ==
  {DistinctTargets(n) : n \in {0, 1, 2, MaxTargets}}
  \cup {RepeatingTargets(n) : n \in {2, 3}}
  \cup {<<2, 1>>}

\* lines 97-105: the listing sorted by ich_id, so that the files of one
\* ich_id follow each other.  The key is the text before the first '_' of
\* the name; ich_ids are written with the same number of digits, for which
\* the order of the texts is the order of the numbers
get_files_to_process(listing) == SortSeqInts(listing)

\* lines 110-112: the arguments of a run; --limit, when given, cuts the list
\* to its first file
CleanArgs == [resume : BOOLEAN, limit : {0, 1}]

NoCleanProgress == [completed |-> <<>>, failed |-> <<>>, skipped |-> <<>>]

\* lines 82-87
load_progress(file) == IF file # None THEN file ELSE NoCleanProgress

\* faulty variant: a file with a cleaned output is cleaned unless the
\* checkpoint names it
SkipReasonNoExists(ich_id, done_ids, existing) ==
  IF ich_id \in done_ids THEN "completed" ELSE "clean"

\* lines 139-148: why a file is passed over, "clean" when it is not
SkipReason(ich_id, done_ids, existing) ==
  IF ich_id \in done_ids THEN "completed"
  ELSE IF ich_id \in existing THEN "exists"
  ELSE "clean"

\* line 175-176: the progress on disk after the file at 0-based position i
checkpoint(i, in_memory, on_disk) ==
  IF (i + 1) % CHECKPOINT_EVERY = 0 THEN in_memory ELSE on_disk

CleanInit ==
  /\ script = "clean"
  /\ basin08 = {} /\ edop_norm_ranges = {} /\ lu = LuTables(1)
  /\ wh_cities = {} /\ matrix_columns = {} /\ whc_matrix = {}
  /\ basin08_columns = AllColumns /\ store_fault = "" /\ writes = 0
  /\ batch_size = BATCH_SIZE
  /\ LocalsInit
  /\ call = NoCall
  /\ fetch_targets = <<>> /\ progress_file = None /\ docs = {} /\ new_summaries = None
  /\ FetchLocalsInit
  /\ runs = 1 /\ failures = 0 /\ requested = <<>>
  /\ raw_files \in FileLists
  /\ out_files = {} /\ sent = <<>>
  /\ \E a \in CleanArgs : resume = a.resume /\ limit = a.limit
  /\ files = <<>> /\ completed_ids = {} /\ file_i = 0
  /\ NoExtract /\ NoCrawl /\ NoPipeline

cleanFrame == <<script, buildVars, fetch_targets, docs, new_summaries, already_fetched,
                fetch_i, requested, raw_files, resume, limit, extractVars, crawlVars,
                pipeVars>>

\* lines 117-134: the raw files are listed, the progress is loaded with
\* --resume and starts empty without it, and --limit cuts the list
CleanStart ==
  /\ script = "clean" /\ pc = "start"
  /\ progress' = IF resume THEN load_progress(progress_file) ELSE NoCleanProgress
  /\ completed_ids' = ToSet(progress'.completed)
  /\ files' = Limited(get_files_to_process(raw_files), limit)
  /\ file_i' = 0
  /\ pc' = "loop"
  /\ UNCHANGED <<cleanFrame, progress_file, out_files, sent, runs, failures>>

\* lines 139-141: the checkpoint names the file
CleanSkipCompleted ==
  /\ script = "clean" /\ pc = "loop"
  /\ file_i < Len(files)
  /\ SkipReason(files[file_i + 1], completed_ids, out_files) = "completed"
  /\ file_i' = file_i + 1
  /\ UNCHANGED <<cleanFrame, pc, progress_file, progress, out_files, files,
                 completed_ids, sent, runs, failures>>

\* lines 143-148: the cleaned file is there already
CleanSkipExists ==
  /\ script = "clean" /\ pc = "loop"
  /\ file_i < Len(files)
  /\ SkipReason(files[file_i + 1], completed_ids, out_files) = "exists"
  /\ progress' = [progress EXCEPT !.skipped = Append(@, files[file_i + 1])]
  /\ file_i' = file_i + 1
  /\ UNCHANGED <<cleanFrame, pc, progress_file, out_files, files, completed_ids,
                 sent, runs, failures>>

\* the call of clean_with_llm for one file, as the log keeps it
LlmRequest(ich_id) ==
  [ich_id |-> ich_id, written |-> FALSE,
   completed |-> progress_file # None /\ ich_id \in ToSet(progress_file.completed),
   exists |-> ich_id \in out_files]

\* lines 150-158 and 170-176: the raw text is sent to the LLM; the call
\* returns the cleaned text, or raises and the file is noted as failed,
\* without a sleep before the checkpoint
CleanSend ==
  /\ script = "clean" /\ pc = "loop"
  /\ file_i < Len(files)
  /\ SkipReason(files[file_i + 1], completed_ids, out_files) = "clean"
  /\ sent' = Append(sent, LlmRequest(files[file_i + 1]))
  /\ \E ok \in BOOLEAN :
       IF ok
       THEN /\ pc' = "write"
            /\ UNCHANGED <<progress, progress_file, file_i, failures>>
       ELSE /\ failures < MaxFailures
            /\ failures' = failures + 1
            /\ progress' = [progress EXCEPT
                              !.failed = Append(@, [ich_id |-> files[file_i + 1]])]
            /\ progress_file' = checkpoint(file_i, progress', progress_file)
            /\ file_i' = file_i + 1
            /\ UNCHANGED pc
  /\ UNCHANGED <<cleanFrame, out_files, files, completed_ids, runs>>

\* lines 161-162: the cleaned text is written to its file
CleanWrite ==
  /\ script = "clean" /\ pc = "write"
  /\ out_files' = out_files \cup {files[file_i + 1]}
  /\ sent' = [sent EXCEPT ![Len(sent)].written = TRUE]
  /\ pc' = "record"
  /\ UNCHANGED <<cleanFrame, progress_file, progress, files, completed_ids, file_i,
                 runs, failures>>

\* lines 164-168: the file is recorded as completed, and the run sleeps
CleanRecord ==
  /\ script = "clean" /\ pc = "record"
  /\ progress' = [progress EXCEPT !.completed = Append(@, files[file_i + 1])]
  /\ pc' = "sleep"
  /\ UNCHANGED <<cleanFrame, progress_file, out_files, files, completed_ids, file_i,
                 sent, runs, failures>>

\* lines 168-176: the sleep is over, and every tenth file saves the progress
CleanCheckpoint ==
  /\ script = "clean" /\ pc = "sleep"
  /\ progress_file' = checkpoint(file_i, progress, progress_file)
  /\ file_i' = file_i + 1
  /\ pc' = "loop"
  /\ UNCHANGED <<cleanFrame, progress, out_files, files, completed_ids, sent, runs,
                 failures>>

\* lines 179-180: the final save
CleanFinish ==
  /\ script = "clean" /\ pc = "loop"
  /\ file_i = Len(files)
  /\ progress_file' = progress
  /\ pc' = "done"
  /\ UNCHANGED <<cleanFrame, progress, out_files, files, completed_ids, file_i,
                 sent, runs, failures>>

\* the process is stopped inside the loop of lines 135-176, between any two
\* of its steps or in its sleep: what was not saved is lost, the files
\* written stay
CleanInterrupt ==
  /\ script = "clean" /\ pc \in {"loop", "write", "record", "sleep"}
  /\ file_i < Len(files)
  /\ pc' = "interrupted"
  /\ UNCHANGED <<cleanFrame, progress_file, progress, out_files, files,
                 completed_ids, file_i, sent, runs, failures>>

\* the script is started again, with any arguments
CleanAgain ==
  /\ script = "clean" /\ pc \in {"done", "interrupted"}
  /\ runs < MaxRuns
  /\ runs' = runs + 1
  /\ \E a \in CleanArgs : resume' = a.resume /\ limit' = a.limit
  /\ pc' = "start"
  /\ progress' = None /\ files' = <<>> /\ completed_ids' = {} /\ file_i' = 0
  /\ UNCHANGED <<script, buildVars, fetch_targets, docs, new_summaries, already_fetched,
                 fetch_i, requested, raw_files, extractVars, crawlVars, pipeVars,
                 progress_file, out_files, sent, failures>>

CleanNext ==
  \/ CleanStart
  \/ CleanSkipCompleted
  \/ CleanSkipExists
  \/ CleanSend
  \/ CleanWrite
  \/ CleanRecord
  \/ CleanCheckpoint
  \/ CleanFinish
  \/ CleanInterrupt
  \/ CleanAgain

SpecClean == CleanInit /\ [][CleanNext]_vars

(***************************************************************************)
(* ich_llm_extract_batch_cd.py and ich_llm_extract_new.py: main, run again *)
(* and again over the same targets.  An entry of 'extractions' keeps the   *)
(* ich_id of the document it was made from and its error, "" when the      *)
(* extraction succeeded.                                                   *)
(***************************************************************************)
ExtractScripts == {"extract_batch_cd", "extract_new"}

NoResults(targets) ==
  [total_documents |-> Len(targets), successful |-> 0, failed |-> 0, extractions |-> <<>>]

Entry(ich_id, error) == [ich_id |-> ich_id, error |-> error]

\* faulty variant: the run resumes after the documents that succeeded
start_index_successful(existing) == existing.successful

\* batch_cd line 164, new line 162
start_index(existing) == Len(existing["extractions"])

\* what extract_with_claude and the lines after it can meet: a dict without
\* 'error', the dict of a JSON parse error, a response that is valid JSON
\* but not the dict expected (the statements before the counters raise), an
\* exception of the API call
Outcomes == {"success", "parse_error", "malformed", "exception"}

\* faulty variant: a document that is not found is listed without being
\* counted
record_not_found_uncounted(res, ich_id) ==
  [res EXCEPT !.extractions = Append(@, Entry(ich_id, "Document not found"))]

\* batch_cd lines 173-180
record_not_found(res, ich_id) ==
  [res EXCEPT !.extractions = Append(@, Entry(ich_id, "Document not found")),
              !.failed = @ + 1]

\* batch_cd lines 185-206, new lines 174-195
record_extraction(res, ich_id, outcome) ==
  CASE outcome = "success" ->
         [res EXCEPT !.successful = @ + 1,
                     !.extractions = Append(@, Entry(ich_id, ""))]
    [] outcome = "parse_error" ->
         [res EXCEPT !.failed = @ + 1,
                     !.extractions = Append(@, Entry(ich_id, "JSON parse error"))]
    [] OTHER ->
         [res EXCEPT !.extractions = Append(@, Entry(ich_id, outcome)),
                     !.failed = @ + 1]

\* the documents found under DOC_DIR: all of them, or all but one
DocDirs(targets) ==
  {ToSet(targets) \ missing : missing \in {{}, {1}, {CHECKPOINT_EVERY}}}

ExtractInit ==
  /\ script \in ExtractScripts
  /\ basin08 = {} /\ edop_norm_ranges = {} /\ lu = LuTables(1)
  /\ wh_cities = {} /\ matrix_columns = {} /\ whc_matrix = {}
  /\ basin08_columns = AllColumns /\ store_fault = "" /\ writes = 0
  /\ batch_size = BATCH_SIZE
  /\ LocalsInit
  /\ call = NoCall
  /\ fetch_targets = <<>> /\ progress_file = None /\ docs = {} /\ new_summaries = None
  /\ FetchLocalsInit
  /\ runs = 1 /\ failures = 0 /\ requested = <<>>
  /\ NoClean /\ NoCrawl /\ NoPipeline
  /\ IF script = "extract_batch_cd"
     THEN /\ target_ids \in TargetLists
          /\ doc_dir \in DocDirs(target_ids)
     ELSE /\ target_ids \in {DistinctTargets(n) : n \in {0, 1, 2, MaxTargets}}
          /\ doc_dir = ToSet(target_ids)
  /\ output_file = None
  /\ ExtractLocalsInit

extractFrame == <<script, buildVars, cleanVars, crawlVars, pipeVars, fetch_targets, progress_file,
                  docs, new_summaries, progress, already_fetched, fetch_i, requested,
                  target_ids, doc_dir>>

\* batch_cd lines 147-165, new lines 145-163: the results of an earlier run
\* are taken over when the file holds extractions
ExtractStart ==
  /\ script \in ExtractScripts /\ pc = "start"
  /\ LET existing == output_file
         taken == existing # None /\ existing["extractions"] # <<>>
     IN  /\ results' = IF taken THEN existing ELSE NoResults(target_ids)
         /\ start_idx' = IF taken THEN start_index(existing) ELSE 0
  /\ doc_i' = start_idx'
  /\ pc' = "loop"
  /\ UNCHANGED <<extractFrame, output_file, runs, failures>>

\* batch_cd lines 172-180: the document is not under DOC_DIR, and the
\* iteration ends there
ExtractNotFound ==
  /\ script = "extract_batch_cd" /\ pc = "loop"
  /\ doc_i < Len(target_ids)
  /\ target_ids[doc_i + 1] \notin doc_dir
  /\ results' = record_not_found(results, target_ids[doc_i + 1])
  /\ doc_i' = doc_i + 1
  /\ UNCHANGED <<extractFrame, pc, output_file, start_idx, runs, failures>>

\* batch_cd lines 182-209, new lines 171-198: the document is read and
\* sent, the outcome is recorded, and the run sleeps
ExtractDocument ==
  /\ script \in ExtractScripts /\ pc = "loop"
  /\ doc_i < Len(target_ids)
  /\ target_ids[doc_i + 1] \in doc_dir
  /\ \E outcome \in Outcomes :
       /\ outcome = "success" \/ failures < MaxFailures
       /\ failures' = IF outcome = "success" THEN failures ELSE failures + 1
       /\ results' = record_extraction(results, target_ids[doc_i + 1], outcome)
  /\ pc' = "sleep"
  /\ UNCHANGED <<extractFrame, output_file, start_idx, doc_i, runs>>

\* batch_cd lines 209-215, new lines 198-204: the sleep is over, and every
\* tenth document saves the results
ExtractCheckpoint ==
  /\ script \in ExtractScripts /\ pc = "sleep"
  /\ output_file' = checkpoint(doc_i, results, output_file)
  /\ doc_i' = doc_i + 1
  /\ pc' = "loop"
  /\ UNCHANGED <<extractFrame, results, start_idx, runs, failures>>

\* batch_cd lines 217-219, new lines 206-208: the final save
ExtractFinish ==
  /\ script \in ExtractScripts /\ pc = "loop"
  /\ doc_i >= Len(target_ids)
  /\ output_file' = results
  /\ pc' = "done"
  /\ UNCHANGED <<extractFrame, results, start_idx, doc_i, runs, failures>>

\* the process is stopped inside the loop, in its sleep included, or
\* reading a document raises (batch_cd lines 182-183, new lines 171-172,
\* outside the try): what was not saved is lost
ExtractInterrupt ==
  /\ script \in ExtractScripts /\ pc \in {"loop", "sleep"}
  /\ doc_i < Len(target_ids)
  /\ pc' = "interrupted"
  /\ UNCHANGED <<extractFrame, output_file, results, start_idx, doc_i, runs, failures>>

\* the script is started again
ExtractAgain ==
  /\ script \in ExtractScripts /\ pc \in {"done", "interrupted"}
  /\ runs < MaxRuns
  /\ runs' = runs + 1
  /\ pc' = "start"
  /\ results' = None /\ start_idx' = 0 /\ doc_i' = 0
  /\ UNCHANGED <<extractFrame, output_file, failures>>

ExtractNext ==
  \/ ExtractStart
  \/ ExtractNotFound
  \/ ExtractDocument
  \/ ExtractCheckpoint
  \/ ExtractFinish
  \/ ExtractInterrupt
  \/ ExtractAgain

SpecExtract == ExtractInit /\ [][ExtractNext]_vars

(***************************************************************************)
(* Properties of the saved matrix.                                         *)
(***************************************************************************)
\* the basin08 row with a given hybas_id
RawRow(h) == CHOOSE r \in basin08 : r["hybas_id"] = h

\* what the claims call the vocabulary of categorical field k, and the first
\* column (numbered from 0) of its one-hot block
Vocabulary(k) == cat_ids[CATEGORICAL_FIELDS[k][2]]

ColumnOffset(k) ==
  Len(NUMERICAL_FIELDS) + Len(PNV_FIELDS)
  + SumSeq([q \in 1..(k - 1) |-> Len(Vocabulary(q))])

\* the cell of column c (numbered from 1) of the row built from basin row r
ExpectedCell(r, c) ==
  IF c <= Len(NUMERICAL_FIELDS)
  THEN LET col == NUMERICAL_FIELDS[c][1]
           name == NUMERICAL_FIELDS[c][2]
           raw == IF col \in TEMP_FIELDS /\ r[col] # None
                  THEN Rat(r[col][1], 10 * r[col][2]) ELSE r[col]
       IN  normalize_value(raw, DictGet(ranges, name \o "_min"),
                           DictGet(ranges, name \o "_max"))
  ELSE IF c <= Len(NUMERICAL_FIELDS) + Len(PNV_FIELDS)
  THEN LET v == r[PNV_FIELDS[c - Len(NUMERICAL_FIELDS)]]
       IN  IF v = None THEN Zero ELSE Rat(v[1], 100 * v[2])
  ELSE IF \E k \in 1..Len(CATEGORICAL_FIELDS) :
            /\ r[CATEGORICAL_FIELDS[k][1]] # None
            /\ feature_names[c] = "cat_" \o CATEGORICAL_FIELDS[k][2] \o "_"
                                  \o ToString(r[CATEGORICAL_FIELDS[k][1]][1])
       THEN One
       ELSE Zero

\* C1: row i of the saved matrix is the row built from the basin whose
\* hybas_id is basin_ids[i] of the saved identifier array, and the saved
\* identifiers are in ascending hybas_id order, whatever the fetchmany size.
C1_RowsFollowBasinIds ==
  output.saved =>
    /\ \A i \in 1..Len(output.basin_ids) :
         /\ i <= Len(output.matrix)
         /\ \E r \in basin08 : r["hybas_id"] = output.basin_ids[i]
         /\ \A c \in 1..Len(output.feature_names) :
              output.matrix[i][c] = ExpectedCell(RawRow(output.basin_ids[i]), c)
    /\ \A i, j \in 1..Len(output.basin_ids) :
         i < j => output.basin_ids[i] < output.basin_ids[j]
    /\ {output.basin_ids[i] : i \in 1..Len(output.basin_ids)}
         = {r["hybas_id"] : r \in basin08}

\* three different basins saved after a fetch cut into batches of two
C1_Witness ==
  /\ output.saved
  /\ batch_size = MaxBatch
  /\ Len(output.basin_ids) > batch_size
  /\ output.matrix[1] # output.matrix[2]
  /\ output.matrix[2] # output.matrix[3]

\* C2: in every saved row the one-hot block of every categorical field holds
\* a single 1, at column_offset + index_of(raw id, vocabulary), when the raw id
\* is non-null and in the vocabulary, and is all zero otherwise; the block sum
\* is 0 or 1, and no row processed raises.
C2_OneHotBlocks ==
  /\ output.saved =>
       \A i \in 1..Len(output.matrix) : \A k \in 1..Len(CATEGORICAL_FIELDS) :
         LET raw == RawRow(output.basin_ids[i])[CATEGORICAL_FIELDS[k][1]]
             vocab == Vocabulary(k)
             block == [j \in 1..Len(vocab) |-> output.matrix[i][ColumnOffset(k) + j]]
             ones == {j \in 1..Len(vocab) : block[j] = One}
         IN  /\ \A j \in 1..Len(vocab) : block[j] \in {Zero, One}
             /\ Cardinality(ones) <= 1
             /\ IF raw # None /\ IndexOf(vocab, raw[1]) # 0
                THEN ones = {IndexOf(vocab, raw[1])}
                ELSE ones = {}
  /\ (script = "sparse" /\ row_idx > 0) => exc = ""

\* a saved row with a matched id, an unmatched id and a NULL id
C2_Witness ==
  /\ output.saved
  /\ \E i \in 1..Len(output.matrix) : \E k1, k2 \in 1..Len(CATEGORICAL_FIELDS) :
       LET r == RawRow(output.basin_ids[i])
           raw1 == r[CATEGORICAL_FIELDS[k1][1]]
           raw2 == r[CATEGORICAL_FIELDS[k2][1]]
       IN  /\ raw1 # None /\ IndexOf(Vocabulary(k1), raw1[1]) > 1
           /\ output.matrix[i][ColumnOffset(k1) + IndexOf(Vocabulary(k1), raw1[1])] = One
           /\ raw2 # None /\ IndexOf(Vocabulary(k2), raw2[1]) = 0
           /\ Len(Vocabulary(k2)) > 0
  /\ \E i \in 1..Len(output.matrix) : \E k \in 1..Len(CATEGORICAL_FIELDS) :
       /\ RawRow(output.basin_ids[i])[CATEGORICAL_FIELDS[k][1]] = None
       /\ Len(Vocabulary(k)) > 0

\* the number of distinct ids of the lookup table of categorical field k
LookupSize(k) ==
  Cardinality({lu[CATEGORICAL_FIELDS[k][2]][i] :
                 i \in 1..Len(lu[CATEGORICAL_FIELDS[k][2]])})

ExpectedWidth ==
  Len(NUMERICAL_FIELDS) + Len(PNV_FIELDS)
  + SumSeq([k \in 1..Len(CATEGORICAL_FIELDS) |-> LookupSize(k)])

\* the j-th smallest distinct id of the lookup table of categorical field k
LookupId(k, j) ==
  LET ids == {lu[CATEGORICAL_FIELDS[k][2]][i] : i \in 1..Len(lu[CATEGORICAL_FIELDS[k][2]])}
  IN  CHOOSE x \in ids : Cardinality({y \in ids : y < x}) = j - 1

\* C3: the column count is len(NUMERICAL_FIELDS) + len(PNV_FIELDS) + the sum
\* of the vocabulary sizes, and the count and the column layout are fixed by
\* the Feature Definition and the lookup tables alone, whatever rows basin08
\* holds.
C3_ColumnCount ==
  (script = "sparse" /\ pc \in {"layout", "counted", "fetching", "assembled", "done"}) =>
    /\ n_features = ExpectedWidth
    /\ Len(feature_names) = ExpectedWidth
    /\ \A k \in 1..Len(CATEGORICAL_FIELDS) : \A j \in 1..LookupSize(k) :
         feature_names[Len(NUMERICAL_FIELDS) + Len(PNV_FIELDS)
                       + SumSeq([q \in 1..(k - 1) |-> LookupSize(q)]) + j]
           = "cat_" \o CATEGORICAL_FIELDS[k][2] \o "_" \o ToString(LookupId(k, j))
    /\ output.saved =>
         \A i \in 1..Len(output.matrix) : Len(output.matrix[i]) = ExpectedWidth

\* a saved matrix over lookup tables of different sizes, one of them empty
\* and one with a repeated id
C3_Witness ==
  /\ output.saved
  /\ Len(output.matrix) = 2
  /\ lu["cls"] = <<>>
  /\ lu["tec"] = <<2, 1, 2>>

\* C4: the saved feature names are in matrix-column order: there are as many
\* names as columns, cat_id_to_col[p][v] is the index of 'cat_p_v' in the
\* list, the numerical names take the first columns and the vegetation names
\* the next ones, and every categorical entry lies beyond the dense block.
C4_NamesInColumnOrder ==
  (script = "sparse" /\ pc \in {"layout", "counted", "fetching", "assembled", "done"}) =>
    /\ Len(feature_names) = n_features
    /\ \A p \in Prefixes : \A v \in DOMAIN cat_id_to_col[p] :
         cat_id_to_col[p][v]
           = IndexOf(feature_names, "cat_" \o p \o "_" \o ToString(v)) - 1
    /\ \A i \in 1..Len(NUMERICAL_FIELDS) :
         feature_names[i] = "n_" \o NUMERICAL_FIELDS[i][2]
    /\ \A i \in 1..Len(PNV_FIELDS) :
         feature_names[Len(NUMERICAL_FIELDS) + i] = "pnv_" \o Pad2(i)
    /\ \A e \in 1..Len(sparse_cols) :
         /\ sparse_cols[e] >= Len(NUMERICAL_FIELDS) + Len(PNV_FIELDS)
         /\ sparse_cols[e] < n_features
    /\ output.saved =>
         /\ output.feature_names = feature_names
         /\ \A i \in 1..Len(output.matrix) :
              Len(output.matrix[i]) = Len(output.feature_names)

\* saved names, with categorical entries accumulated for several fields
C4_Witness ==
  /\ output.saved
  /\ Len(sparse_cols) >= 3
  /\ \E p \in Prefixes : Cardinality(DOMAIN cat_id_to_col[p]) = 4

(***************************************************************************)
(* Properties of the normalization.                                        *)
(***************************************************************************)
RatMul(a, b) == Rat(a[1] * b[1], a[2] * b[2])

\* x lies strictly between a and b
StrictlyBetween(x, a, b) ==
  \/ RatLess(a, x) /\ RatLess(x, b)
  \/ RatLess(b, x) /\ RatLess(x, a)

\* the continuous fields, as positions of NUMERICAL_FIELDS
Fields == 1..Len(NUMERICAL_FIELDS)

FieldMin(i) == DictGet(ranges, NUMERICAL_FIELDS[i][2] \o "_min")
FieldMax(i) == DictGet(ranges, NUMERICAL_FIELDS[i][2] \o "_max")

\* the value of continuous field i of basin row r in the unit of the ranges:
\* degrees for the three temperature fields, the raw value for the others
InUnits(r, i) ==
  LET v == r[NUMERICAL_FIELDS[i][1]]
  IN  IF v # None /\ NUMERICAL_FIELDS[i][1] \in {"tmp_dc_syr", "tmp_dc_smn", "tmp_dc_smx"}
      THEN Rat(v[1], 10 * v[2])
      ELSE v

\* the basin08 row a whc_matrix row was built from
CityBasin(row) ==
  LET city == CHOOSE c \in wh_cities : Num(c.id) = row["city_id"]
  IN  CHOOSE r \in basin08 : r["id"] = city.basin_id[1]

\* C5 (as claimed): no builder lets a null through: every continuous cell of
\* a row built by basin08_sparse_matrix.main or by build_matrix_row holds a
\* number, which is 0.0 when the raw value, the minimum or the maximum is null.
C5_NullNeverPropagated ==
  /\ output.saved =>
       \A n \in 1..Len(output.matrix) : \A i \in Fields :
         LET r == RawRow(output.basin_ids[n])
         IN  /\ output.matrix[n][i] # None
             /\ (r[NUMERICAL_FIELDS[i][1]] = None \/ FieldMin(i) = None \/ FieldMax(i) = None)
                  => output.matrix[n][i] = Zero
  /\ script = "whc" =>
       \A row \in txn : \A i \in Fields :
         ("n_" \o NUMERICAL_FIELDS[i][2]) \in DOMAIN row =>
           LET r == CityBasin(row)
               cell == row["n_" \o NUMERICAL_FIELDS[i][2]]
           IN  /\ cell # None
               /\ (r[NUMERICAL_FIELDS[i][1]] = None \/ FieldMin(i) = None \/ FieldMax(i) = None)
                    => cell = Zero

\* C6: for non-null raw value, min and max with min # max, normalize_value
\* returns (raw - min) / (max - min) unclamped: 0.0 at min, 1.0 at max, inside
\* (0, 1) strictly between them and outside [0, 1] beyond them.
C6_LinearUnclamped ==
  (call.done /\ call.value # None /\ call.min_val # None /\ call.max_val # None
     /\ call.min_val # call.max_val) =>
    /\ RatMul(call.result, RatSub(call.max_val, call.min_val))
         = RatSub(call.value, call.min_val)
    /\ call.value = call.min_val => call.result = Zero
    /\ call.value = call.max_val => call.result = One
    /\ StrictlyBetween(call.value, call.min_val, call.max_val)
         => RatLess(Zero, call.result) /\ RatLess(call.result, One)
    /\ (call.value # call.min_val /\ call.value # call.max_val
        /\ ~StrictlyBetween(call.value, call.min_val, call.max_val))
         => RatLess(call.result, Zero) \/ RatLess(One, call.result)

\* a call whose raw value lies beyond the maximum of a fractional range
C6_Witness ==
  /\ call.done
  /\ call.min_val = Rat(1, 10) /\ call.max_val = Num(2) /\ call.value = Num(3)
  /\ RatLess(One, call.result)

\* C7 (as claimed): with min = max, normalize_value returns 0.5 for every raw
\* value.
C7_Original ==
  (call.done /\ call.min_val # None /\ call.max_val # None
     /\ call.min_val = call.max_val) =>
    call.result = Half

\* C7 (amended): with min = max, normalize_value returns 0.5 for every
\* non-null raw value and 0.0 for a null one; it never divides by zero.
C7_ZeroVariance ==
  (call.done /\ call.min_val # None /\ call.max_val # None
     /\ call.min_val = call.max_val) =>
    call.result = IF call.value = None THEN Zero ELSE Half

\* a call with min = max and a raw value away from them
C7_Witness ==
  /\ call.done
  /\ call.min_val = Num(2) /\ call.max_val = Num(2)
  /\ call.value = Num(0)
  /\ call.result = Half

\* x is the least (greatest) non-null value of S, or null when S has none
IsSqlMin(x, S) ==
  IF S \ {None} = {} THEN x = None
  ELSE x \in S \ {None} /\ \A y \in S \ {None} : RatLeq(x, y)

IsSqlMax(x, S) ==
  IF S \ {None} = {} THEN x = None
  ELSE x \in S \ {None} /\ \A y \in S \ {None} : RatLeq(y, x)

\* C8: get_global_ranges returns the stored record as it is when
\* edop_norm_ranges holds one, and otherwise the MIN and MAX of every field
\* over all of basin08; either way it returns a mapping and does not fail.
C8_RangesLoadedOrComputed ==
  /\ (script = "sparse" /\ pc = "failed" /\ store_fault = ""
        /\ basin08_columns = AllColumns) => exc = "ZeroDivisionError"
  /\ (script = "sparse" /\ pc \notin {"start", "connected", "failed"}) =>
       IF edop_norm_ranges # {}
       THEN ranges \in edop_norm_ranges
       ELSE /\ DOMAIN ranges = RangeKeys(NUMERICAL_FIELDS)
            /\ \A i \in Fields :
                 /\ IsSqlMin(FieldMin(i), {InUnits(r, i) : r \in basin08})
                 /\ IsSqlMax(FieldMax(i), {InUnits(r, i) : r \in basin08})

\* ranges computed from three basins, with a NULL among the values of a field
C8_Witness ==
  /\ script = "sparse" /\ pc = "done"
  /\ edop_norm_ranges = {}
  /\ Cardinality(basin08) = 3
  /\ RatLess(ranges["elev_min_min"], ranges["elev_min_max"])
  /\ \E r \in basin08 : r["slp_dg_uav"] = None
  /\ ranges["slope_upstream_min"] # None

\* the cell of continuous field i computed from the value v in range units
CellMatches(cell, v, i) ==
  IF v = None \/ FieldMin(i) = None \/ FieldMax(i) = None THEN TRUE
  ELSE IF FieldMin(i) = FieldMax(i) THEN cell = Half
  ELSE RatMul(cell, RatSub(FieldMax(i), FieldMin(i))) = RatSub(v, FieldMin(i))

\* both builders normalize the value in range units, and computed ranges are
\* taken over the values in range units
ConversionConsistent ==
  /\ (script = "sparse" /\ pc \notin {"start", "connected", "failed"} /\ edop_norm_ranges = {}) =>
       \A i \in Fields :
         /\ IsSqlMin(FieldMin(i), {InUnits(r, i) : r \in basin08})
         /\ IsSqlMax(FieldMax(i), {InUnits(r, i) : r \in basin08})
  /\ output.saved =>
       \A n \in 1..Len(output.matrix) : \A i \in Fields :
         CellMatches(output.matrix[n][i], InUnits(RawRow(output.basin_ids[n]), i), i)
  /\ script = "whc" =>
       \A row \in txn : \A i \in Fields :
         ("n_" \o NUMERICAL_FIELDS[i][2]) \in DOMAIN row =>
           CellMatches(row["n_" \o NUMERICAL_FIELDS[i][2]], InUnits(CityBasin(row), i), i)

TempFieldIndexes == {i \in Fields : NUMERICAL_FIELDS[i][1] \in TEMP_FIELDS}

\* C9 (as claimed): the conversion is consistent and so, with computed
\* ranges, the basin holding a temperature field's minimum normalizes to 0.0
\* and the one holding its maximum to 1.0.
C9_Original ==
  /\ ConversionConsistent
  /\ (output.saved /\ edop_norm_ranges = {}) =>
       \A n \in 1..Len(output.matrix) : \A i \in TempFieldIndexes :
         LET v == InUnits(RawRow(output.basin_ids[n]), i)
         IN  /\ (v # None /\ v = FieldMin(i)) => output.matrix[n][i] = Zero
             /\ (v # None /\ v = FieldMax(i)) => output.matrix[n][i] = One

\* C9 (amended): the conversion is consistent and so, with computed ranges
\* whose minimum and maximum differ, the basin holding a temperature field's
\* minimum normalizes to 0.0 and the one holding its maximum to 1.0; when the
\* minimum equals the maximum every basin with a value normalizes to 0.5.
C9_ConversionConsistent ==
  /\ ConversionConsistent
  /\ (output.saved /\ edop_norm_ranges = {}) =>
       \A n \in 1..Len(output.matrix) : \A i \in TempFieldIndexes :
         LET v == InUnits(RawRow(output.basin_ids[n]), i)
         IN  IF v = None THEN output.matrix[n][i] = Zero
             ELSE IF FieldMin(i) = FieldMax(i) THEN output.matrix[n][i] = Half
             ELSE /\ v = FieldMin(i) => output.matrix[n][i] = Zero
                  /\ v = FieldMax(i) => output.matrix[n][i] = One

\* computed ranges: temp_yr spans half a degree and its extremes are saved as
\* 0.0 and 1.0, while another temperature field has a single value
C9_Witness ==
  /\ output.saved /\ edop_norm_ranges = {}
  /\ ranges["temp_yr_min"] = Num(0) /\ ranges["temp_yr_max"] = Rat(1, 2)
  /\ \E n, m \in 1..Len(output.matrix) :
       /\ output.matrix[n][18] = Zero
       /\ output.matrix[m][18] = One
  /\ ranges["temp_max_min"] = ranges["temp_max_max"]
  /\ ranges["temp_max_min"] # None

\* C10 (as claimed): once the ranges are resolved, loaded or computed, every
\* continuous field has its '<name>_min' and '<name>_max' entry, and the build
\* goes on only with all of them.
C10_EveryFieldHasRange ==
  (script = "sparse" /\ pc \notin {"start", "connected", "failed"}) =>
    RangeKeys(NUMERICAL_FIELDS) \subseteq DOMAIN ranges

(***************************************************************************)
(* Properties of the range resolver and of the category vocabularies.      *)
(***************************************************************************)
\* C11 (as claimed): for every continuous field the resolved range has
\* min <= max, with the ranges read from edop_norm_ranges and with the ranges
\* computed from basin08 alike.  A field whose minimum or maximum is null (no
\* value to aggregate, or no entry in the stored record) has no order to
\* satisfy.
C11_MinLeqMax ==
  (script = "sparse" /\ pc \notin {"start", "connected", "failed"}) =>
    \A i \in Fields :
      (FieldMin(i) # None /\ FieldMax(i) # None) => RatLeq(FieldMin(i), FieldMax(i))

\* C12: the vocabulary of every categorical field is the ascending list,
\* without duplicates, of the ids of its lookup table and of nothing else: it
\* is fixed by the lookup table whatever rows basin08 holds, and an empty
\* lookup table gives the empty list and a build that goes on.
C12_VocabularyFromLookup ==
  (script = "sparse" /\ pc \in {"layout", "counted", "fetching", "assembled", "done"}) =>
    \A k \in 1..Len(CATEGORICAL_FIELDS) :
      LET table == lu[CATEGORICAL_FIELDS[k][2]]
      IN  /\ {Vocabulary(k)[j] : j \in 1..Len(Vocabulary(k))}
               = {table[i] : i \in 1..Len(table)}
          /\ \A j \in 1..(Len(Vocabulary(k)) - 1) : Vocabulary(k)[j] < Vocabulary(k)[j + 1]
          /\ table = <<>> => Vocabulary(k) = <<>>

\* a finished build with an empty lookup table, one that stores an id twice
\* and out of order, and a vocabulary id that no basin carries
C12_Witness ==
  /\ script = "sparse" /\ pc = "done" /\ output.saved
  /\ lu["cls"] = <<>> /\ cat_ids["cls"] = <<>>
  /\ lu["tec"] = <<2, 1, 2>> /\ cat_ids["tec"] = <<1, 2>>
  /\ basin08 # {}
  /\ \E k \in 1..Len(CATEGORICAL_FIELDS) : \E j \in 1..Len(Vocabulary(k)) :
       \A r \in basin08 : r[CATEGORICAL_FIELDS[k][1]] # <<Vocabulary(k)[j]>>

(***************************************************************************)
(* Properties of the build as a whole: failures, order, store access.      *)
(***************************************************************************)
\* C13: when the store cannot be reached or a range or vocabulary query
\* fails, the build stops at that step with the store's error: the ranges are
\* not replaced by partial or default ones, no matrix row is built and no
\* output file is written.
C13_FailFast ==
  (script = "sparse" /\ store_fault # "") =>
    /\ store_fault = "connect" => pc \in {"start", "failed"}
    /\ store_fault = "ranges" => pc \in {"start", "connected", "failed"}
    /\ store_fault = "categories" => pc \in {"start", "connected", "ranges", "failed"}
    /\ pc = "failed" => exc = "OperationalError"
    /\ store_fault \in {"connect", "ranges"} => ranges = <<>>
    /\ cat_ids = <<>> /\ feature_names = <<>>
    /\ basin_ids = <<>> /\ dense_data = <<>> /\ final_matrix = <<>>
    /\ output = NoOutput

\* the first query of get_global_ranges failed and the run ended there
C13_Witness ==
  /\ script = "sparse" /\ store_fault = "ranges"
  /\ pc = "failed" /\ exc = "OperationalError"
  /\ Len(sql_log) = 1
  /\ ranges = <<>> /\ output = NoOutput

\* the normalized and vegetation cells a whc_matrix row has to hold
WhcDeclaredCells ==
  {"n_" \o NUMERICAL_FIELDS[i][2] : i \in Fields}
  \cup {"pnv_" \o Pad2(i) : i \in 1..15}

\* C14 (as claimed): no declared field is skipped silently: on a basin08
\* without a declared column either build fails before any output, and every
\* row either build produces has a value for every declared field.
C14_NoFieldSkipped ==
  /\ (script = "sparse" /\ ~(DeclaredCols \subseteq basin08_columns)) =>
       /\ pc \notin {"fetching", "assembled", "done"}
       /\ basin_ids = <<>> /\ final_matrix = <<>> /\ output = NoOutput
  /\ output.saved =>
       \A n \in 1..Len(output.matrix) :
         /\ Len(output.matrix[n]) = n_features
         /\ n_features >= Len(NUMERICAL_FIELDS) + Len(PNV_FIELDS)
  /\ (script = "whc" /\ ~(DeclaredCols \subseteq basin08_columns)) =>
       /\ txn = {} /\ whc_matrix = OldMatrix
  /\ script = "whc" =>
       \A row \in txn : WhcDeclaredCells \subseteq DOMAIN row

\* C15: an exception raised while a row is transformed ends the run: the
\* sparse build saves nothing, populate_whc_matrix rolls back and leaves
\* whc_matrix as it was; a finished build has a row for every basin it
\* fetched, and populate_whc_matrix has inserted or counted as skipped every
\* city it fetched, skipping only those whose basin is not in basin08.
C15_BatchAborted ==
  /\ (script = "sparse" /\ pc = "failed") =>
       /\ output = NoOutput /\ final_matrix = <<>>
  /\ output.saved =>
       /\ Len(output.basin_ids) = Cardinality(basin08)
       /\ Len(output.matrix) >= Cardinality(basin08)
  /\ (script = "whc" /\ pc = "failed") => (txn = {} /\ whc_matrix = OldMatrix)
  /\ (script = "whc" /\ pc = "done") =>
       /\ inserted + skipped = Len(cities)
       /\ Cardinality(whc_matrix) = inserted
       /\ inserted = Cardinality({i \in 1..Len(cities) :
                        \E r \in basin08 : r["id"] = cities[i].basin_id[1]})

\* a row arrived for which the counted matrix has no place: IndexError in the
\* middle of a batch, after rows of that batch were built, and nothing saved
C15_Witness ==
  /\ script = "sparse" /\ pc = "failed" /\ exc = "IndexError"
  /\ writes = 1
  /\ row_idx = n_basins /\ row_idx >= 2
  /\ batch_size = BATCH_SIZE
  /\ output = NoOutput

\* the statements of the log sent by one function
SentBy(fn) == SelectSeq(sql_log, LAMBDA s : s.by = fn)

\* the lookups are each done once, and before any query on the basins
LookupsOnceAndFirst ==
  (script = "sparse" /\ pc \in {"layout", "counted", "fetching", "assembled", "done"}) =>
    /\ Len(SentBy("get_global_ranges")) = 2
    /\ SentBy("get_global_ranges")[1].table = "edop_norm_ranges"
    /\ SentBy("get_global_ranges")[2].table
         = (IF edop_norm_ranges = {} THEN "basin08" ELSE "edop_norm_ranges")
    /\ Len(SentBy("get_categorical_ids")) = Len(CATEGORICAL_FIELDS)
    /\ \A k \in 1..Len(CATEGORICAL_FIELDS) :
         SentBy("get_categorical_ids")[k].table = CATEGORICAL_FIELDS[k][4]
    /\ \A i, j \in 1..Len(sql_log) :
         (sql_log[i].by = "get_global_ranges" /\ sql_log[j].by # "get_global_ranges")
           => i < j
    /\ \A i, j \in 1..Len(sql_log) :
         (sql_log[i].by = "get_categorical_ids" /\ sql_log[j].by = "main") => i < j

\* C16: in one run of the build the range lookup and the vocabulary lookup
\* are each done once, and they, the row count and the one SELECT of the rows
\* are answered before the first row of the matrix is built: from then on no
\* statement is sent, the rows are handed over from the answer the client
\* holds, in the order of the answer and none left out, and the ranges and
\* the vocabularies in use are the ones the lookups returned.
C16_IoBeforeConstruction ==
  /\ LookupsOnceAndFirst
  /\ (script = "sparse" /\ (row_idx > 0 \/ basin_ids # <<>>)) =>
       /\ pc \in {"fetching", "assembled", "done", "failed"}
       /\ Len(sql_log) = 2 + Len(CATEGORICAL_FIELDS) + 2
       /\ sql_log[Len(sql_log)] = Statement("SELECT", "basin08", "main")
  /\ (script = "sparse" /\ pc \in {"fetching", "assembled", "done"}) =>
       /\ ranges = get_global_ranges([fault |-> store_fault, columns |-> basin08_columns],
                                     edop_norm_ranges, basin08).val
       /\ cat_ids = get_categorical_ids(lu)
       /\ cat_id_to_col = BuildCatIdToCol(cat_ids)
       /\ row_idx = Len(basin_ids)
       /\ result = SubSeq(SelectBasins(basin08), row_idx + 1, Cardinality(basin08))
       /\ \A k \in 1..row_idx : basin_ids[k] = SelectBasins(basin08)[k][1]

\* the build with the batch size of the script: every statement had been
\* sent when the rows, three of them, were built from the answer in one go
C16_Witness ==
  /\ script = "sparse" /\ pc = "fetching"
  /\ batch_size = BATCH_SIZE
  /\ Cardinality(basin08) = 3
  /\ row_idx = 3 /\ result = <<>>
  /\ edop_norm_ranges = {}
  /\ Len(sql_log) = 2 + Len(CATEGORICAL_FIELDS) + 2

\* C17: basin08_sparse_matrix.main only reads the store: every statement it
\* sends is a SELECT and no step of it changes basin08, the lookup tables or
\* edop_norm_ranges, also when the ranges were computed for want of a stored
\* record.
C17_StoreReadOnly ==
  [][script = "sparse" =>
       /\ UNCHANGED <<basin08, edop_norm_ranges, lu, wh_cities, matrix_columns,
                      whc_matrix, basin08_columns>>
       /\ \A i \in 1..Len(sql_log') : sql_log'[i].verb = "SELECT"]_vars

\* a finished build that computed the ranges and left edop_norm_ranges empty
C17_Witness ==
  /\ script = "sparse" /\ pc = "done" /\ output.saved
  /\ edop_norm_ranges = {}
  /\ Len(SentBy("get_global_ranges")) = 2
  /\ Len(sql_log) = 2 + Len(CATEGORICAL_FIELDS) + 2

(***************************************************************************)
(* Properties of the vegetation shares and of repeated normalization.      *)
(***************************************************************************)
\* the share of a raw percentage: 0.0 for null, a hundredth of it otherwise
ShareOf(raw) == IF raw = None THEN Zero ELSE Rat(raw[1], 100 * raw[2])

\* C18: a vegetation cell is 0.0 for a null raw value and raw / 100
\* otherwise, so 0 gives 0.0 and 100 gives 1.0, in the rows saved by
\* basin08_sparse_matrix.main and in the rows built by build_matrix_row alike.
C18_VegetationShare ==
  /\ output.saved =>
       \A n \in 1..Len(output.matrix) : \A j \in 1..Len(PNV_FIELDS) :
         output.matrix[n][Len(NUMERICAL_FIELDS) + j]
           = ShareOf(RawRow(output.basin_ids[n])[PNV_FIELDS[j]])
  /\ script = "whc" =>
       \A row \in txn : \A j \in 1..Len(PNV_FIELDS) :
         /\ ("pnv_" \o Pad2(j)) \in DOMAIN row
         /\ row["pnv_" \o Pad2(j)] = ShareOf(CityBasin(row)[PNV_FIELDS[j]])

\* a saved matrix with shares from the raw values 100, 0, 50 and null
C18_Witness ==
  /\ output.saved
  /\ \E n, m \in 1..Len(output.matrix) :
       LET r == RawRow(output.basin_ids[n])
           q == RawRow(output.basin_ids[m])
       IN  /\ r[PNV_FIELDS[1]] = Num(100) /\ output.matrix[n][Len(NUMERICAL_FIELDS) + 1] = One
           /\ r[PNV_FIELDS[2]] = Num(0) /\ output.matrix[n][Len(NUMERICAL_FIELDS) + 2] = Zero
           /\ q[PNV_FIELDS[1]] = Num(50) /\ output.matrix[m][Len(NUMERICAL_FIELDS) + 1] = Half
           /\ q[PNV_FIELDS[3]] = None /\ output.matrix[m][Len(NUMERICAL_FIELDS) + 3] = Zero

\* C19 (as claimed): normalize_value applied to its own output, with the same
\* min and max, returns that output.
C19_Original ==
  call.done => call.again = call.result

\* the outputs that normalizing again leaves as they are
IsFixedPoint(y, min_val, max_val) ==
  IF min_val = None \/ max_val = None THEN y = Zero
  ELSE IF min_val = max_val THEN y = Half
  ELSE RatSub(y, min_val) = RatMul(y, RatSub(max_val, min_val))

\* C19 (amended): normalize_value is a function of its arguments, and applied
\* to its own output y with the same min and max it returns
\* (y - min) / (max - min), or 0.5 when min = max, or 0.0 when min or max is
\* null: the output is returned unchanged exactly when it is a fixed point of
\* that map, as it is for every raw value when min or max is null, for every
\* non-null raw value when min = max, and for every raw value when
\* min = 0 and max = 1.
C19_SecondApplication ==
  call.done =>
    /\ call.result # None
    /\ (call.again = call.result) <=> IsFixedPoint(call.result, call.min_val, call.max_val)
    /\ (call.min_val = None \/ call.max_val = None) => call.again = call.result
    /\ (call.min_val # None /\ call.min_val = call.max_val /\ call.value # None)
         => call.again = call.result
    /\ (call.min_val = Zero /\ call.max_val = One) => call.again = call.result
    /\ (call.value # None /\ call.min_val # None /\ call.max_val # None
        /\ call.min_val # call.max_val) =>
         RatMul(call.again, RatSub(call.max_val, call.min_val))
           = RatSub(call.result, call.min_val)

\* the raw value 2 in the range 0..3 gives 2/3, which normalizes again to 2/9
C19_Witness ==
  /\ call.done
  /\ call.value = Num(2) /\ call.min_val = Num(0) /\ call.max_val = Num(3)
  /\ call.result = Rat(2, 3)
  /\ call.again = Rat(2, 9)

(***************************************************************************)
(* Properties of the fetch step of ich_corpus_update.py.                   *)
(***************************************************************************)
\* how often x occurs in a sequence
Occurrences(seq, x) == Cardinality({k \in 1..Len(seq) : seq[k] = x})

\* the requests of the log for element x that brought its page
PagesFetched(x) ==
  Cardinality({k \in 1..Len(requested) : requested[k].ich_id = x /\ requested[k].ok})

\* C20 (as claimed): an element recorded as fetched in fetch_progress.json is
\* not requested again, in the same run or in a later one; a failed page
\* request does not record the element as fetched, and a later run requests
\* every target that is not recorded; every fetched id has exactly one entry
\* in 'results'.
C20_Resumable ==
  /\ \A k \in 1..Len(requested) : ~requested[k].recorded
  /\ progress_file # None =>
       /\ \A x \in ToSet(progress_file.fetched) :
            /\ Occurrences(progress_file.fetched, x) <= PagesFetched(x)
            /\ Cardinality({k \in 1..Len(progress_file.results) :
                              progress_file.results[k].ich_id = x}) = 1
  /\ (script = "fetch" /\ pc = "done") =>
       \A x \in ToSet(fetch_targets) :
         \/ x \in already_fetched
         \/ \E k \in 1..Len(requested) : requested[k].ich_id = x /\ requested[k].run = runs

(***************************************************************************)
(* Properties of the batch scripts of src/scripts/cdop.                    *)
(***************************************************************************)
\* C21: ich_clean_batch never sends to the LLM a document that the
\* checkpoint on disk lists as completed (in a run with --resume) or whose
\* cleaned file exists; over all runs, interrupted or not, the cleaned file
\* of an ich_id is written at most once; and an ich_id is in 'completed', in
\* memory or on disk, only when its cleaned file has been written.
C21_CleanedOnce ==
  script = "clean" =>
    /\ \A k \in 1..Len(sent) :
         /\ ~sent[k].exists
         /\ ~sent[k].completed
    /\ \A x \in ToSet(raw_files) :
         Cardinality({k \in 1..Len(sent) : sent[k].ich_id = x /\ sent[k].written}) <= 1
    /\ progress # None => ToSet(progress.completed) \subseteq out_files
    /\ progress_file # None => ToSet(progress_file.completed) \subseteq out_files

\* a resumed run passes over a file that an interrupted run had written but
\* not recorded, and over one the checkpoint lists
C21_Witness ==
  /\ script = "clean" /\ pc = "done" /\ resume /\ runs = 2
  /\ Len(files) = MaxTargets
  /\ progress.skipped # <<>>
  /\ completed_ids # {}
  /\ Len(sent) = MaxTargets

\* the delay configured for a request: REQUEST_DELAY, and the shorter one of
\* the gap checks
ConfiguredDelays == {REQUEST_DELAY, GAP_CHECK_DELAY}

\* C22: every request of the crawler (list page, element pages, gap checks,
\* nomination files) comes right after a sleep of the configured delay, so
\* no two requests follow each other without a sleep between them; a failed
\* request is answered with None and the crawl goes on: no step ends with an
\* exception.
C22_RateLimited ==
  script = "fetch" =>
    /\ \A k \in 1..Len(http_log) :
         http_log[k].op = "get" =>
           /\ k > 1
           /\ http_log[k - 1].op = "sleep"
           /\ http_log[k - 1].delay \in ConfiguredDelays
           /\ http_log[k - 1].delay
                = (IF http_log[k].url.kind = "page" /\ http_log[k].url.ich_id > MaxTargets
                   THEN GAP_CHECK_DELAY ELSE REQUEST_DELAY)
    /\ pc # "failed" /\ exc = ""
    /\ Cardinality({k \in 1..Len(http_log) : http_log[k].op = "get"
                      /\ http_log[k].url.kind = "page"
                      /\ http_log[k].url.ich_id <= MaxTargets}) = Len(requested)

\* a crawl that has requested the list page, element pages, gap checks and
\* nomination files, one of its requests having failed
C22_Witness ==
  /\ script = "fetch" /\ pc = "done"
  /\ failures = 1
  /\ gap_fetch_results # None
  /\ \A kind \in {"list", "page", "doc"} :
       \E k \in 1..Len(http_log) : http_log[k].op = "get" /\ http_log[k].url.kind = kind
  /\ \E k \in 1..Len(http_log) : http_log[k].op = "sleep" /\ http_log[k].delay = GAP_CHECK_DELAY
  /\ gap_report.errors # <<>>

\* C23: when ich_llm_extract_batch_cd or ich_llm_extract_new has run to its
\* end, after any interruptions and resumes over the same target list,
\* 'extractions' holds one entry per target, the k-th made from the k-th
\* target; a resumed run starts at the number of entries the file holds, and
\* at every step the entries are those of the targets handled so far: of the
\* first i at the head of iteration i, of one more in the sleep that ends it.
C23_OneEntryPerTarget ==
  script \in ExtractScripts =>
    /\ pc = "done" =>
         /\ Len(output_file["extractions"]) = Len(target_ids)
         /\ \A k \in 1..Len(target_ids) :
              output_file["extractions"][k].ich_id = target_ids[k]
    /\ pc \in {"loop", "sleep", "interrupted"} =>
         /\ Len(results["extractions"]) \in {doc_i, doc_i + 1}
         /\ pc = "loop" => Len(results["extractions"]) = doc_i
         /\ pc = "sleep" => Len(results["extractions"]) = doc_i + 1
         /\ \A k \in 1..Len(results["extractions"]) :
              results["extractions"][k].ich_id = target_ids[k]
    /\ (output_file # None /\ pc # "start") =>
         /\ Len(output_file["extractions"]) <= Len(target_ids)
         /\ \A k \in 1..Len(output_file["extractions"]) :
              output_file["extractions"][k].ich_id = target_ids[k]
    /\ (pc = "loop" /\ doc_i = start_idx) =>
         start_idx = (IF output_file = None THEN 0
                      ELSE Len(output_file["extractions"]))

\* a second run has resumed after the tenth document and finished the list,
\* in which one extraction failed
C23_Witness ==
  /\ script \in ExtractScripts /\ pc = "done" /\ runs = 2
  /\ start_idx = CHECKPOINT_EVERY
  /\ Len(target_ids) = MaxTargets
  /\ output_file.failed = 1
  /\ output_file.successful = MaxTargets - 1

\* C24 (as claimed): in each checkpointed loop, when the document at 1-based
\* position n, n divisible by 10, has been handled, the checkpoint file on
\* disk holds what the loop holds in memory: every document up to and
\* including n, whatever the outcome of document n.
C24_CheckpointEveryTen ==
  /\ (script \in ExtractScripts /\ pc = "loop"
      /\ doc_i > start_idx /\ doc_i % CHECKPOINT_EVERY = 0) =>
       output_file = results
  /\ (script = "clean" /\ pc = "loop" /\ file_i > 0 /\ file_i % CHECKPOINT_EVERY = 0) =>
       progress_file = progress
  /\ (script = "fetch" /\ pc = "loop" /\ fetch_i > 0 /\ fetch_i % CHECKPOINT_EVERY = 0) =>
       progress_file = progress

\* C28: in both extraction scripts successful + failed = len(extractions)
\* after every iteration of the loop and in every file written, whatever the
\* outcome of a document (not found, JSON parse error, API exception,
\* malformed response, success), also in runs resumed from the file.
C28_CountersMatchEntries ==
  script \in ExtractScripts =>
    /\ results # None =>
         /\ results.successful + results.failed = Len(results["extractions"])
         /\ results.failed
              = Cardinality({k \in 1..Len(results["extractions"]) :
                               results["extractions"][k].error # ""})
    /\ output_file # None =>
         output_file.successful + output_file.failed = Len(output_file["extractions"])

\* a resumed run that ended with a document not found, a malformed response
\* and successes in its file
C28_Witness ==
  /\ script = "extract_batch_cd" /\ pc = "done" /\ runs = 2
  /\ start_idx = CHECKPOINT_EVERY
  /\ output_file.failed = 2
  /\ output_file.successful = MaxTargets - 2
  /\ \E k \in 1..Len(output_file["extractions"]) :
       output_file["extractions"][k].error = "malformed"
  /\ \E k \in 1..Len(output_file["extractions"]) :
       output_file["extractions"][k].error = "Document not found"

(***************************************************************************)
(* basin08_pca.py and basin08_clustering_k20.py, run one after the other   *)
(* once basin08_sparse_matrix.py has saved its files.  Each script takes   *)
(* OUTPUT_DIR as Path(__file__).parent.parent / "output": for the builder  *)
(* and the clustering, which lie in scripts/, that is <repo>/output; for   *)
(* basin08_pca.py, which lies in scripts/edop/, it is                      *)
(* <repo>/scripts/output.  What either directory holds of the other        *)
(* script's files is what an earlier layout or a copy has left there.  The *)
(* fitted models of                                                        *)
(* scikit-learn are inputs: the components of TruncatedSVD and the         *)
(* centroids of MiniBatchKMeans are drawn from small sets, and what the    *)
(* scripts do with them is computed: transform is the product of each row  *)
(* with the components, the label of a row is the index of its nearest     *)
(* centroid.                                                               *)
(***************************************************************************)
\* basin08_clustering_k20.py line 32
K_CLUSTERS == 20

RatAdd(a, b) == Rat(a[1] * b[2] + b[1] * a[2], a[2] * b[2])

\* the matrix row built from the data of basin h, two features wide
SignatureOf(h) == <<Num(h % 5), Num((h \div 100) + (h % 3))>>

\* the saved basin ids, ascending, and the saved matrix: a row per id and,
\* when basins were deleted while the matrix was built, rows left unfilled
SavedBasinIds(base, n) == [j \in 1..n |-> base + j]
SavedMatrix(ids, extra) ==
  [j \in 1..(Len(ids) + extra) |->
     IF j <= Len(ids) THEN SignatureOf(ids[j]) ELSE <<Zero, Zero>>]

\* the components a fit can give, one component over the two features
ComponentSets ==
  {<<<<One, Zero>>>>, <<<<One, One>>>>, <<<<One, Num(-1)>>>>, <<<<Half, Zero>>>>}

\* the centroids a fit can give, K_CLUSTERS points on the one PCA axis
CentroidSets == {[k \in 1..K_CLUSTERS |-> <<Num(k - shift)>>] : shift \in {1, 12}}

Dot(row, weights) ==
  LET RECURSIVE Sum(_)
      Sum(i) == IF i = 0 THEN Zero
                ELSE RatAdd(Sum(i - 1), RatMul(row[i], weights[i]))
  IN  Sum(Len(row))

\* basin08_pca.py line 82: svd_initial.transform(matrix)[:, :n_components]
transform(matrix, components) ==
  [j \in 1..Len(matrix) |->
     [c \in 1..Len(components) |-> Dot(matrix[j], components[c])]]

RECURSIVE Pow2(_)
Pow2(k) == IF k = 0 THEN 1 ELSE 2 * Pow2(k - 1)

\* n / d rounded to an integer, a tie to the even one
RoundHalfEven(n, d) ==
  LET q == n \div d
      r == n % d
  IN  IF 2 * r > d \/ (2 * r = d /\ q % 2 = 1) THEN q + 1 ELSE q

\* the exponent of a number of 2^24 or more, and the negated exponent of
\* one below 2^23: the shift that brings it to 24 significant bits
RECURSIVE ScaleUp(_, _, _)
ScaleUp(n, d, e) ==
  IF n \div (d * Pow2(e)) >= Pow2(24) THEN ScaleUp(n, d, e + 1) ELSE e

RECURSIVE ScaleDown(_, _, _)
ScaleDown(n, d, k) ==
  IF (n * Pow2(k)) \div d >= Pow2(23) THEN k ELSE ScaleDown(n, d, k + 1)

\* numpy.float32 of a number: the nearest value with a significand of 24
\* bits, a tie going to the even significand (normal range only)
float32(x) ==
  LET n == Abs(x[1])
      d == x[2]
      s == IF x[1] < 0 THEN -1 ELSE 1
  IN  IF n = 0 THEN Zero
      ELSE IF n \div d >= Pow2(23)
      THEN LET e == ScaleUp(n, d, 0)
           IN  Rat(s * RoundHalfEven(n, d * Pow2(e)) * Pow2(e), 1)
      ELSE LET k == ScaleDown(n, d, 1)
           IN  Rat(s * RoundHalfEven(n * Pow2(k), d), Pow2(k))

\* basin08_pca.py line 94: astype(np.float32), value by value
astype_float32(coords) ==
  [j \in 1..Len(coords) |-> [c \in 1..Len(coords[j]) |-> float32(coords[j][c])]]

SqDist(x, y) ==
  LET RECURSIVE Sum(_)
      Sum(i) == IF i = 0 THEN Zero
                ELSE RatAdd(Sum(i - 1),
                            RatMul(RatSub(x[i], y[i]), RatSub(x[i], y[i])))
  IN  Sum(Len(x))

\* the label of a row: the 0-based index of the first nearest centroid
predict(x, cents) ==
  (CHOOSE k \in 1..Len(cents) :
     /\ \A m \in 1..Len(cents) : RatLeq(SqDist(x, cents[k]), SqDist(x, cents[m]))
     /\ \A m \in 1..(k - 1) : RatLess(SqDist(x, cents[k]), SqDist(x, cents[m]))) - 1

\* basin08_clustering_k20.py line 67: the labels of the rows, row by row;
\* fewer rows than clusters is a ValueError
fit_predict(coords, cents) ==
  IF Len(coords) < K_CLUSTERS THEN Raise("ValueError")
  ELSE Return([j \in 1..Len(coords) |-> predict(coords[j], cents)])

\* basin08_clustering_k20.py line 120: the rows of one executemany
INSERT_BATCH_SIZE == 10000

\* basin08_clustering_k20.py lines 123-135, from batch b on (0-based), after
\* the earlier batches have put the rows of stored into the new table: the
\* list of the batch is built, (basin_ids[j], labels[j]) for every j of the
\* batch, which is an IndexError when the labels run out; then the batch is
\* inserted, which is a UniqueViolation when one of its ids is already in
\* the table or twice in the batch
RECURSIVE InsertBatches(_, _, _, _)
InsertBatches(ids, labs, b, stored) ==
  LET start == b * INSERT_BATCH_SIZE
      end == IF start + INSERT_BATCH_SIZE < Len(ids)
             THEN start + INSERT_BATCH_SIZE ELSE Len(ids)
      batch_ids == {ids[j] : j \in (start + 1)..end}
  IN  IF start >= Len(ids) THEN Return(stored)
      ELSE IF end > Len(labs) THEN Raise("IndexError")
      ELSE IF \/ Cardinality(batch_ids) < end - start
              \/ \E r \in stored : r.hybas_id \in batch_ids
      THEN Raise("UniqueViolation")
      ELSE InsertBatches(ids, labs, b + 1,
             stored \cup {[hybas_id |-> ids[j], cluster_id |-> labs[j]] :
                            j \in (start + 1)..end})

\* basin08_clustering_k20.py lines 119-135: the rows inserted into the
\* table just created, batch after batch
batch_data(ids, labs) == InsertBatches(ids, labs, 0, {})

\* the files of a build over n basins from base on
Build(base, n, extra) ==
  [saved |-> TRUE,
   matrix |-> SavedMatrix(SavedBasinIds(base, n), extra),
   feature_names |-> <<"f1", "f2">>,
   basin_ids |-> SavedBasinIds(base, n)]

Bases == {100, 200}

\* what <repo>/scripts/output can hold of the builder's files: nothing, a
\* copy of the files just built, or the files of another build
ScriptsOutputs(built, n) ==
  {NoOutput, built} \cup {Build(base, n, 0) : base \in Bases}

\* what <repo>/output can hold as basin08_pca_coords.npy: nothing, or the
\* coordinates of some build, which may be the one just made and may have
\* no rows
CoordsFiles(n) ==
  {NoCoordsFile}
    \cup {CoordsFile(astype_float32(transform(Build(base, n, 0).matrix, comps))) :
            base \in Bases, comps \in {<<<<One, One>>>>, <<<<Half, Zero>>>>}}

PipelineInit ==
  /\ script = "pipeline"
  /\ basin08 = {} /\ edop_norm_ranges = {} /\ lu = LuTables(1)
  /\ wh_cities = {} /\ matrix_columns = {} /\ whc_matrix = {}
  /\ basin08_columns = AllColumns /\ store_fault = "" /\ writes = 0
  /\ batch_size = BATCH_SIZE
  /\ pc = "start" /\ exc = "" /\ sql_log = <<>> /\ ranges = <<>>
  /\ cat_ids = <<>> /\ feature_names = <<>> /\ n_features = 0 /\ cat_id_to_col = <<>>
  /\ n_basins = 0 /\ result = <<>>
  /\ basin_ids = <<>> /\ dense_data = <<>>
  /\ sparse_rows = <<>> /\ sparse_cols = <<>> /\ sparse_vals = <<>>
  /\ row_idx = 0 /\ final_matrix = <<>>
  /\ \E base \in Bases, n \in {0, K_CLUSTERS - 1, K_CLUSTERS, K_CLUSTERS + 1},
        extra \in {0, 1} :
       /\ output = Build(base, n, extra)
       /\ scripts_output \in ScriptsOutputs(output, n)
       /\ coords_file \in CoordsFiles(n)
  /\ cities = <<>> /\ valid_columns = {} /\ txn = {}
  /\ city_i = 0 /\ inserted = 0 /\ skipped = 0
  /\ call = NoCall
  /\ NoFetch
  /\ NoClean /\ NoExtract /\ NoCrawl
  /\ PipelineLocalsInit
  /\ basin08_pca_clusters = OldClusters

pipeFrame == <<script, storeVars, sql_log, ranges, sparseVars, whcVars, call, fetchVars,
               cleanVars, extractVars, crawlVars, scripts_output, coords_file>>

\* basin08_pca.py lines 29-94: the matrix, the ids and the feature names are
\* loaded from <repo>/scripts/output, the SVD is fitted and the coordinates
\* of every row are saved there; a missing file is a FileNotFoundError, and
\* an empty matrix cannot be fitted
RunPca ==
  /\ script = "pipeline" /\ pc = "start"
  /\ IF ~scripts_output.saved
     THEN /\ pc' = "pca_failed" /\ exc' = "FileNotFoundError"
          /\ UNCHANGED <<svd_components, pca_coords>>
     ELSE IF scripts_output.matrix = <<>>
     THEN /\ pc' = "pca_failed" /\ exc' = "ValueError"
          /\ UNCHANGED <<svd_components, pca_coords>>
     ELSE /\ svd_components' \in ComponentSets
          /\ pca_coords' = astype_float32(transform(scripts_output.matrix,
                                                    svd_components'))
          /\ pc' = "pca" /\ UNCHANGED exc
  /\ UNCHANGED <<pipeFrame, centroids, labels, basin08_pca_clusters>>

\* the steps at which the store fails the clustering: psycopg.connect
\* (line 105), and the count that follows the commit (line 153)
ClusteringFaults == {"", "connect", "verify"}

\* basin08_clustering_k20.py lines 29-170: the coordinates and the ids are
\* loaded from <repo>/output, the rows are labelled, and the table is
\* dropped, created and filled in one transaction; the script is run
\* whatever became of basin08_pca.py
RunClustering ==
  /\ script = "pipeline" /\ pc \in {"pca", "pca_failed"}
  /\ \E cents \in CentroidSets, fault \in ClusteringFaults :
       IF ~coords_file.saved
       THEN /\ pc' = "failed" /\ exc' = "FileNotFoundError"
            /\ UNCHANGED <<centroids, labels, basin08_pca_clusters>>
       ELSE
       LET fitted == fit_predict(coords_file.coords, cents)
           rows == batch_data(output.basin_ids, fitted.val)
       IN  IF fitted.exc # ""
           THEN /\ pc' = "failed" /\ exc' = fitted.exc
                /\ UNCHANGED <<centroids, labels, basin08_pca_clusters>>
           ELSE /\ centroids' = cents /\ labels' = fitted.val
                /\ IF fault = "connect"
                   THEN /\ pc' = "failed" /\ exc' = "OperationalError"
                        /\ UNCHANGED basin08_pca_clusters
                   ELSE IF rows.exc # ""
                   THEN /\ pc' = "failed" /\ exc' = rows.exc
                        /\ UNCHANGED basin08_pca_clusters
                   ELSE IF fault = "verify"
                   THEN /\ pc' = "failed" /\ exc' = "OperationalError"
                        /\ basin08_pca_clusters' = rows.val
                   ELSE /\ pc' = "done" /\ exc' = ""
                        /\ basin08_pca_clusters' = rows.val
  /\ UNCHANGED <<pipeFrame, svd_components, pca_coords>>

PipelineNext ==
  \/ RunPca
  \/ RunClustering

SpecPipeline == PipelineInit /\ [][PipelineNext]_vars

\* C25 (as claimed): after a successful run of the pipeline the table
\* basin08_pca_clusters holds, for every identifier h of
\* basin08_basin_ids.npy, exactly one row, and its cluster_id is the label
\* of the PCA coordinates, as basin08_pca.py computes and saves them in
\* float32, of the matrix row at h's position, which is the row built from
\* h's data; the table holds nothing else.
C25_RowCorrespondence ==
  (script = "pipeline" /\ pc = "done") =>
    /\ svd_components # None
    /\ \A j \in 1..Len(output.basin_ids) :
         LET h == output.basin_ids[j]
             mine == {r \in basin08_pca_clusters : r.hybas_id = h}
         IN  /\ Cardinality(mine) = 1
             /\ output.matrix[j] = SignatureOf(h)
             /\ \A r \in mine :
                  r.cluster_id
                    = predict(astype_float32(
                                transform(<<SignatureOf(h)>>, svd_components))[1],
                              centroids)
    /\ Cardinality(basin08_pca_clusters) = Len(output.basin_ids)

(***************************************************************************)
(* Properties of the replacement of whc_matrix.                            *)
(***************************************************************************)
\* the positions of the log at which a statement of this verb was sent
WhcLogged(verb) == {k \in 1..Len(sql_log) : sql_log[k].verb = verb}

\* the transaction of populate_whc_matrix.main: the ranges are loaded before
\* the DELETE; the DELETE and the INSERTs are committed together, once, after
\* the last city; without a commit whc_matrix is as it was and with one it
\* holds the rows of the transaction; a failure before the commit is rolled
\* back; a committed run has inserted or skipped every city with a basin_id
WhcTransaction ==
  script = "whc" =>
    /\ \A k \in WhcLogged("DELETE") :
         /\ ranges # <<>>
         /\ \E j \in 1..(k - 1) : sql_log[j].table = "edop_norm_ranges"
    /\ Cardinality(WhcLogged("COMMIT")) <= 1
    /\ \A k \in WhcLogged("COMMIT") :
         /\ city_i = Len(cities)
         /\ \A j \in WhcLogged("DELETE") \cup WhcLogged("INSERT") : j < k
         /\ Cardinality(WhcLogged("DELETE")) = 1
         /\ Cardinality(WhcLogged("INSERT")) = inserted
         /\ \A j \in WhcLogged("ROLLBACK") : j > k
    /\ WhcLogged("COMMIT") = {} => whc_matrix = OldMatrix
    /\ WhcLogged("COMMIT") # {} =>
         /\ whc_matrix = txn
         /\ Cardinality(whc_matrix) = inserted
         /\ inserted + skipped = Len(cities)
         /\ Len(cities) = Cardinality({c \in wh_cities : c.basin_id # None})
    /\ pc = "failed" =>
         /\ txn = {}
         /\ store_fault # "connect" => WhcLogged("ROLLBACK") # {}

\* C26 (as claimed): the replacement is one transaction, and a run that
\* fails at any point leaves whc_matrix with exactly its previous contents.
C26_Original ==
  /\ WhcTransaction
  /\ (script = "whc" /\ exc # "") => whc_matrix = OldMatrix

\* C26 (amended): the replacement is one transaction, committed after every
\* city has been processed, with the ranges loaded before the DELETE and
\* inserted + skipped equal to the number of cities with a basin_id; a run
\* that fails before the commit is rolled back and leaves whc_matrix with
\* exactly its previous contents; a run that fails after the commit, in the
\* summary it prints, leaves the new contents in place.
C26_AtomicReplace ==
  /\ WhcTransaction
  /\ (script = "whc" /\ exc # "" /\ WhcLogged("COMMIT") = {}) =>
       /\ pc = "failed" /\ whc_matrix = OldMatrix
  /\ (script = "whc" /\ exc # "" /\ WhcLogged("COMMIT") # {}) =>
       /\ pc = "summary_failed"
       /\ whc_matrix = txn /\ whc_matrix # OldMatrix

\* the first query of the summary failed after the commit: the run ended
\* with an exception and whc_matrix holds the new row
C26_Witness ==
  /\ script = "whc" /\ pc = "summary_failed" /\ exc = "OperationalError"
  /\ inserted = 1 /\ skipped = 1
  /\ whc_matrix = txn /\ whc_matrix # OldMatrix
  /\ WhcLogged("ROLLBACK") # {}

(***************************************************************************)
(* Properties of the build while other sessions write to basin08.          *)
(***************************************************************************)
\* C27 (as claimed): the saved matrix has as many rows as the saved
\* basin_ids has entries, and every row of it was filled from a fetched
\* basin, also when another session inserts or deletes rows of basin08
\* between the row count and the row query.
C27_RowsMatchIds ==
  output.saved =>
    /\ Len(output.matrix) = Len(output.basin_ids)
    /\ row_idx = n_basins
    /\ \A n \in 1..Len(output.matrix) :
         n <= Len(output.basin_ids)
         /\ \E r \in basin08 : r["hybas_id"] = output.basin_ids[n]

(***************************************************************************)
(* embed_whc.py: generate_embeddings_batch and the valid_mask of main, as  *)
(* single calls.  A text is None or <<s>> for the string s; the embedding  *)
(* the API returns for a text is kept as the text it was made from, and    *)
(* the API answers a list of inputs with one item per input, in order.     *)
(***************************************************************************)
MaxTexts == 3

\* embed_whc.py line 59: the default batch_size
DEFAULT_BATCH_SIZE == 100

Texts == {None, <<"">>, <<"a">>, <<"b">>}
TextLists == UNION {[1..n -> Texts] : n \in 0..MaxTexts}

\* bool(t) of a text
NonEmpty(t) == t # None /\ t[1] # ""

\* client.embeddings.create(input=valid_texts).data
embeddings_create(valid_texts) ==
  [k \in 1..Len(valid_texts) |-> [embedding_of |-> valid_texts[k][1]]]

\* lines 64-82: one batch
batch_embeddings(batch) ==
  LET valid_indices == SelectSeq([j \in 1..Len(batch) |-> j],
                                 LAMBDA j : NonEmpty(batch[j]))
      valid_texts == [k \in 1..Len(valid_indices) |-> batch[valid_indices[k]]]
      data == embeddings_create(valid_texts)
  IN  [j \in 1..Len(batch) |->
         IF \E k \in 1..Len(valid_indices) : valid_indices[k] = j
         THEN data[CHOOSE k \in 1..Len(valid_indices) : valid_indices[k] = j]
         ELSE None]

\* lines 59-84
RECURSIVE generate_embeddings_batch(_, _)
generate_embeddings_batch(texts, size) ==
  IF texts = <<>> THEN <<>>
  ELSE LET n == IF Len(texts) < size THEN Len(texts) ELSE size
       IN  batch_embeddings(SubSeq(texts, 1, n))
           \o generate_embeddings_batch(SubSeq(texts, n + 1, Len(texts)), size)

\* line 163
valid_mask(texts) == [i \in 1..Len(texts) |-> texts[i] # None]

\* line 164: valid_mask.sum()
valid_count(mask) == Cardinality({i \in 1..Len(mask) : mask[i]})

\* a call of generate_embeddings_batch with any batch size, or main at one
\* band, whose texts it embeds with the default batch size
EmbedInit ==
  /\ script = "embed"
  /\ basin08 = {} /\ edop_norm_ranges = {} /\ lu = LuTables(1)
  /\ wh_cities = {} /\ matrix_columns = {} /\ whc_matrix = {}
  /\ basin08_columns = AllColumns /\ store_fault = "" /\ writes = 0
  /\ batch_size = BATCH_SIZE
  /\ LocalsInit
  /\ \E texts \in TextLists, fn \in {"generate_embeddings_batch", "main"},
        size \in {1, 2, DEFAULT_BATCH_SIZE} :
       /\ fn = "main" => size = DEFAULT_BATCH_SIZE
       /\ call = [fn |-> fn, texts |-> texts, size |-> size, done |-> FALSE,
                  skipped |-> FALSE, embeddings |-> <<>>, valid_mask |-> <<>>]
  /\ NoFetch
  /\ NoBatch

\* lines 59-84: a call of generate_embeddings_batch
CallEmbed ==
  /\ script = "embed" /\ call.fn = "generate_embeddings_batch"
  /\ ~call.done
  /\ call' = [call EXCEPT
                !.done = TRUE,
                !.embeddings = generate_embeddings_batch(call.texts, call.size)]
  /\ UNCHANGED <<script, pc, exc, storeVars, sql_log, ranges, sparseVars, whcVars,
                 fetchVars, batchVars>>

\* main lines 157-173: the mask of one band, which is passed over when no
\* city has content, and its embeddings
ProcessBand ==
  /\ script = "embed" /\ call.fn = "main"
  /\ ~call.done
  /\ LET mask == valid_mask(call.texts)
     IN  call' = IF valid_count(mask) = 0
                 THEN [call EXCEPT !.done = TRUE, !.valid_mask = mask,
                                   !.skipped = TRUE]
                 ELSE [call EXCEPT
                         !.done = TRUE, !.valid_mask = mask,
                         !.embeddings = generate_embeddings_batch(call.texts, call.size)]
  /\ UNCHANGED <<script, pc, exc, storeVars, sql_log, ranges, sparseVars, whcVars,
                 fetchVars, batchVars>>

EmbedNext ==
  \/ CallEmbed
  \/ ProcessBand

SpecEmbed == EmbedInit /\ [][EmbedNext]_vars

\* the result has the length of the input and holds at position i the
\* embedding of texts[i] when that is a non-empty string, None otherwise
EmbeddingsInPlace ==
  (script = "embed" /\ call.done /\ ~call.skipped) =>
    /\ Len(call.embeddings) = Len(call.texts)
    /\ \A i \in 1..Len(call.texts) :
         call.embeddings[i] = (IF NonEmpty(call.texts[i])
                               THEN [embedding_of |-> call.texts[i][1]] ELSE None)

\* C29 (as claimed): generate_embeddings_batch returns, for any texts and
\* batch size, a list of the same length holding at position i the embedding
\* of texts[i] when that is a non-empty string and None otherwise, and so
\* every city that main's valid_mask flags (its text is not None) has an
\* embedding at its own index.
C29_EmbeddingsAtOwnIndex ==
  /\ EmbeddingsInPlace
  /\ (script = "embed" /\ call.fn = "main" /\ call.done /\ ~call.skipped) =>
       \A i \in 1..Len(call.texts) : call.valid_mask[i] => call.embeddings[i] # None

====
